---------------------------- MODULE Spec2Model ----------------------------
(***************************************************************************)
(* Model of the Daisy Seed synthesis engine of the kb2040-daisy-groovebox  *)
(* (firmware/daisy/seed/kb2040_groovebox/kb2040_groovebox.cpp): the voice  *)
(* pool, the drum slots, the looper and the MIDI command handlers, with    *)
(* one render step per iteration of the sample loop of AudioCallback.      *)
(*                                                                         *)
(* Every handler is an operator from an engine state (a record of the      *)
(* program's globals) to the engine state it leaves behind; the actions    *)
(* apply these operators to the variables.  Continuous DSP values          *)
(* (oscillator phases, filter and delay memories, sample values) are not   *)
(* part of the model; envelopes are kept as integer levels.                *)
(***************************************************************************)
EXTENDS Integers, Sequences, FiniteSets, TLC

(***************************************************************************)
(* Sizes.  The pools and the looper buffer are scaled down from the        *)
(* firmware's values (kNumVoices = 6, kNumDrumVoices = 8,                  *)
(* kLooperMaxSamples = 384000); the code is parametric in all three.       *)
(***************************************************************************)
kNumVoices == 2

kNumDrumVoices == 2

kLooperMaxSamples == 8

\* Samples per audio block (hw.SetAudioBlockSize(48), scaled down).
BlockSize == 2

\* Capacity of the MIDI event FIFO that ProcessMidi drains (scaled down).
MaxQueue == 2

\* Highest level of the abstract ADSR envelope (0 = below the 0.0001 threshold).
EnvMax == 1

MidiCh_SYNTH == 1

MODE_POLY_SYNTH == 0

MODE_DRUM_KIT == 1

\* MidiCC numbers (midi_protocol.h).
CC_MODWHEEL == 1
CC_VOLUME == 7
CC_SUSTAIN_PEDAL == 64
CC_CUTOFF == 70
CC_RESONANCE == 71
CC_ATTACK == 72
CC_DECAY == 73
CC_SUSTAIN == 74
CC_RELEASE == 75
CC_VIBRATO_RATE == 76
CC_DELAY_TIME == 77
CC_DELAY_FEEDBACK == 78
CC_DELAY_MIX == 79
CC_REVERB_MIX == 80
CC_REVERB_TIME == 81
CC_BASS_BOOST == 84
CC_DRIVE == 85
CC_INSTRUMENT_MODE == 90
CC_LOOPER_CONTROL == 91
CC_LOOPER_LEVEL == 92

\* The note every voice is initialised with (InitSynth).
InitNote == 60

\* Centre of the 14-bit pitch-bend value and half-width of the dead zone.
PitchBendCenter == 8192
PitchBendDead == 256

\* kPitchBendRange, in semitones.
kPitchBendRange == 2

\* g_pitchBendSemi is kept in units of 1/4096 semitone: norm * kPitchBendRange
\* with norm = centered / 8192 is centered / 4096, exact in single precision.
UnitsPerSemitone == PitchBendCenter \div kPitchBendRange

\* g_samplerate: hw.AudioSampleRate() of the Daisy Seed's default configuration.
g_samplerate == 48000

\* kDelayBuffer, the capacity of the delay line in samples.
kDelayBuffer == 96000

\* The float parameters are kept as integers in units of 1/127000: every
\* value 0.xyz + a * v / 127 of HandleCC is a whole number of units.
Scale == 127000

\* The decimal literal m/1000 (0.02f is Milli(20)).
Milli(m) == (m * Scale) \div 1000

\* The product of the decimal literal m/1000 and the parameter value x.
MilliTimes(m, x) == (m * x) \div 1000

\* (size_t)(sec * g_samplerate): the whole samples in sec seconds; numerator
\* and denominator are both divided by 1000 to stay within 32 bits.
SamplesOf(sec) == (sec * (g_samplerate \div 1000)) \div (Scale \div 1000)

\* BOOT_LONG_MS of the control surface.
BOOT_LONG_MS == 800

\* millis() and bootPressStartMs are uint32_t; the model keeps MillisBits
\* bits of them, enough to hold BOOT_LONG_MS.
MillisBits == 12
MillisWrap == 2 ^ MillisBits

VoiceIdx == 0 .. (kNumVoices - 1)
DrumIdx == 0 .. (kNumDrumVoices - 1)

\* Controllers that store a parameter and touch nothing else.
ParamCCs ==
    { CC_MODWHEEL, CC_VOLUME, CC_CUTOFF, CC_RESONANCE, CC_ATTACK, CC_DECAY,
      CC_SUSTAIN, CC_RELEASE, CC_VIBRATO_RATE, CC_DELAY_TIME,
      CC_DELAY_FEEDBACK, CC_DELAY_MIX, CC_REVERB_MIX, CC_REVERB_TIME,
      CC_BASS_BOOST, CC_DRIVE, CC_LOOPER_LEVEL }

Min(a, b) == IF a < b THEN a ELSE b
Max(a, b) == IF a > b THEN a ELSE b

VARIABLES
    voices,            \* Voice voices[kNumVoices]: note, active, gate, keyDown, vel, env
    voiceRotate,       \* round-robin steal cursor
    g_sustainOn,       \* CC64 pedal
    g_instrMode,       \* CC90
    g_pitchBendSemi,   \* pitch bend, in 1/4096 semitone
    params,            \* the float parameter each controller of ParamCCs stores, in 1/127000
    g_delaySamples,    \* delay length in samples
    drumVoices,        \* DrumVoice drumVoices[kNumDrumVoices]
    g_looperRecording,
    g_looperPlaying,
    g_looperWrite,
    g_looperLength,
    g_looperPlay,
    midiq,             \* messages sent to the engine and not yet popped by ProcessMidi
    pc,                \* statement the main loop executes next, "idle" between events
    blockPos,          \* samples of the current block AudioCallback has rendered
    irqRan,            \* a block was rendered since the handler's last statement
    local,             \* local variables of the handler the main loop is in
    ui                 \* control surface (KB2040): the globals of the sketch

engine ==
    << voices, voiceRotate, g_sustainOn, g_instrMode, g_pitchBendSemi, params,
       g_delaySamples, drumVoices, g_looperRecording, g_looperPlaying, g_looperWrite,
       g_looperLength, g_looperPlay >>

\* The two execution contexts of the engine, the main loop (midiq, pc) and
\* the audio interrupt, and the control surface.
ctx == << midiq, pc, blockPos, irqRan, local, ui >>

vars == << engine, ctx >>

\* The engine state as one record, the argument and result of every handler.
St ==
    [ voices |-> voices, voiceRotate |-> voiceRotate,
      g_sustainOn |-> g_sustainOn, g_instrMode |-> g_instrMode,
      g_pitchBendSemi |-> g_pitchBendSemi, params |-> params,
      g_delaySamples |-> g_delaySamples,
      drumVoices |-> drumVoices,
      g_looperRecording |-> g_looperRecording,
      g_looperPlaying |-> g_looperPlaying,
      g_looperWrite |-> g_looperWrite,
      g_looperLength |-> g_looperLength,
      g_looperPlay |-> g_looperPlay ]


(***************************************************************************)
(* Envelopes.                                                              *)
(***************************************************************************)
\* voice.env.Process(voice.gate) of DaisySP's Adsr, as a level 0..EnvMax: the
\* level rises while the gate is on and falls to 0 (silence) once it is off.
EnvProcess(env, gate) ==
    IF gate THEN Min(env + 1, EnvMax) ELSE Max(env - 1, 0)

\* SimpleEnv::Trigger: the number of render steps the value stays above the
\* 1.0e-4 threshold of SimpleEnv::Active, one step per 150 ms of decay time.
SimpleEnvTrigger(velocity, ms) ==
    IF velocity > 0 THEN (ms + 149) \div 150 ELSE 0

\* SimpleEnv::Process: the value decays by one step.
SimpleEnvProcess(value) == Max(value - 1, 0)

\* SimpleEnv::Active
SimpleEnvActive(value) == value > 0

(***************************************************************************)
(* Drum engine.                                                            *)
(***************************************************************************)
DrumTypeForNote(note) ==
    CASE note = 36 -> "DRUM_KICK"
      [] note = 38 -> "DRUM_SNARE"
      [] note = 39 -> "DRUM_CLAP"
      [] note \in {41, 43} -> "DRUM_TOM_LOW"
      [] note \in {45, 47} -> "DRUM_TOM_HIGH"
      [] note \in {42, 44} -> "DRUM_HAT_CLOSED"
      [] note = 46 -> "DRUM_HAT_OPEN"
      [] note \in {49, 51} -> "DRUM_PERC"
      [] OTHER -> "DRUM_SNARE"

\* Decay times (ms) of the tone and the noise envelope per drum type.
DrumToneMs(type) ==
    CASE type = "DRUM_KICK" -> 350
      [] type = "DRUM_SNARE" -> 250
      [] type = "DRUM_HAT_CLOSED" -> 80
      [] type = "DRUM_HAT_OPEN" -> 250
      [] type = "DRUM_TOM_LOW" -> 400
      [] type = "DRUM_TOM_HIGH" -> 300
      [] type = "DRUM_CLAP" -> 180
      [] OTHER -> 220

DrumNoiseMs(type) ==
    CASE type = "DRUM_KICK" -> 50
      [] type = "DRUM_SNARE" -> 180
      [] type = "DRUM_HAT_CLOSED" -> 50
      [] type = "DRUM_HAT_OPEN" -> 200
      [] type = "DRUM_TOM_LOW" -> 120
      [] type = "DRUM_TOM_HIGH" -> 100
      [] type = "DRUM_CLAP" -> 120
      [] OTHER -> 180

\* The first inactive slot, slot 0 when every slot is active.
FindDrumVoice(s) ==
    IF \E i \in DrumIdx : ~s.drumVoices[i].active
    THEN CHOOSE i \in DrumIdx :
            /\ ~s.drumVoices[i].active
            /\ \A j \in DrumIdx : ~s.drumVoices[j].active => i <= j
    ELSE 0

TriggerDrum(s, note, velocity) ==
    LET v == FindDrumVoice(s)
        type == DrumTypeForNote(note)
    IN  [s EXCEPT !.drumVoices[v] =
            [ type |-> type,
              env |-> SimpleEnvTrigger(velocity, DrumToneMs(type)),
              noiseEnv |-> SimpleEnvTrigger(velocity, DrumNoiseMs(type)),
              velocity |-> velocity,
              active |-> TRUE ]]

\* Variant: a slot stays active only while its noise envelope is audible.
ProcessDrumVoice_NoiseOnly(v) ==
    IF ~v.active THEN v
    ELSE IF v.env <= 0 /\ v.noiseEnv <= 0
         THEN [v EXCEPT !.active = FALSE]
         ELSE LET e == SimpleEnvProcess(v.env)
                  n == SimpleEnvProcess(v.noiseEnv)
              IN  [v EXCEPT !.env = e, !.noiseEnv = n,
                            !.active = SimpleEnvActive(n)]

\* One slot of the loop of ProcessDrums.
ProcessDrumVoice(v) ==
    IF ~v.active THEN v
    ELSE IF v.env <= 0 /\ v.noiseEnv <= 0
         THEN [v EXCEPT !.active = FALSE]
         ELSE LET e == SimpleEnvProcess(v.env)
                  n == SimpleEnvProcess(v.noiseEnv)
              IN  [v EXCEPT !.env = e, !.noiseEnv = n,
                            !.active = SimpleEnvActive(e) \/ SimpleEnvActive(n)]

ProcessDrums(s) ==
    [s EXCEPT !.drumVoices = [i \in DrumIdx |-> ProcessDrumVoice(s.drumVoices[i])]]

\* The main loop is in no handler.
NoLocals == [note |-> 0, velocity |-> 0, v |-> 0]

\* TriggerDrum statement by statement, as the main loop executes it; l holds
\* its arguments note and velocity and its local v.  Each statement gives the
\* engine state, the locals and the label it leaves.
DrumLabels == {"D1", "D2", "D3", "D4", "D5", "D6", "D7", "D8"}

TriggerDrumStmt(s, p, l) ==
    CASE p = "D1" -> [st |-> s, local |-> [l EXCEPT !.v = FindDrumVoice(s)],
                      pc |-> "D2"]
      [] p = "D2" -> [st |-> [s EXCEPT !.drumVoices[l.v].type = DrumTypeForNote(l.note)],
                      local |-> l, pc |-> "D3"]
      [] p = "D3" -> [st |-> [s EXCEPT !.drumVoices[l.v].env = 0],
                      local |-> l, pc |-> "D4"]
      [] p = "D4" -> [st |-> [s EXCEPT !.drumVoices[l.v].noiseEnv = 0],
                      local |-> l, pc |-> "D5"]
      [] p = "D5" -> [st |-> [s EXCEPT !.drumVoices[l.v].velocity = l.velocity],
                      local |-> l, pc |-> "D6"]
      [] p = "D6" -> [st |-> [s EXCEPT !.drumVoices[l.v].active = TRUE],
                      local |-> l, pc |-> "D7"]
      [] p = "D7" -> [st |-> [s EXCEPT !.drumVoices[l.v].env =
                                SimpleEnvTrigger(l.velocity,
                                    DrumToneMs(s.drumVoices[l.v].type))],
                      local |-> l, pc |-> "D8"]
      [] p = "D8" -> [st |-> [s EXCEPT !.drumVoices[l.v].noiseEnv =
                                SimpleEnvTrigger(l.velocity,
                                    DrumNoiseMs(s.drumVoices[l.v].type))],
                      local |-> NoLocals, pc |-> "idle"]
      [] OTHER -> [st |-> s, local |-> NoLocals, pc |-> "idle"]

(***************************************************************************)
(* Voice allocation.  A voice pointer is an index, nullptr is -1.          *)
(***************************************************************************)
\* Variant: only a voice whose key is down counts as having the note.
FindExistingVoiceForNote_KeyDownOnly(s, note) ==
    LET hit == { i \in VoiceIdx :
                    s.voices[i].note = note /\ s.voices[i].keyDown }
    IN  IF hit = {} THEN -1
        ELSE CHOOSE i \in hit : \A j \in hit : i <= j

FindExistingVoiceForNote(s, note) ==
    LET hit == { i \in VoiceIdx :
                    /\ s.voices[i].note = note
                    /\ (s.voices[i].active \/ s.voices[i].keyDown) }
    IN  IF hit = {} THEN -1
        ELSE CHOOSE i \in hit : \A j \in hit : i <= j

FindIdleVoice(s) ==
    LET idle == { i \in VoiceIdx :
                    ~s.voices[i].active /\ ~s.voices[i].keyDown }
    IN  IF idle = {} THEN -1
        ELSE CHOOSE i \in idle : \A j \in idle : i <= j

\* Variant: the cursor is not advanced.
StealVoice_NoAdvance(s) ==
    [ v |-> s.voiceRotate,
      st |-> [s EXCEPT
                !.voices[s.voiceRotate] =
                    [@ EXCEPT !.active = FALSE, !.gate = FALSE,
                              !.keyDown = FALSE, !.vel = 0]] ]

\* Returns the stolen index and the state with the cursor advanced and the
\* voice cleared.
StealVoice(s) ==
    [ v |-> s.voiceRotate,
      st |-> [s EXCEPT
                !.voiceRotate = (s.voiceRotate + 1) % kNumVoices,
                !.voices[s.voiceRotate] =
                    [@ EXCEPT !.active = FALSE, !.gate = FALSE,
                              !.keyDown = FALSE, !.vel = 0]] ]

\* Variant: never reuses the voice that already has the note.
AllocateVoiceForNote_NoReuse(s, note) ==
    IF FindIdleVoice(s) # -1
    THEN [v |-> FindIdleVoice(s), st |-> s]
    ELSE StealVoice(s)

AllocateVoiceForNote(s, note) ==
    IF FindExistingVoiceForNote(s, note) # -1
    THEN [v |-> FindExistingVoiceForNote(s, note), st |-> s]
    ELSE IF FindIdleVoice(s) # -1
         THEN [v |-> FindIdleVoice(s), st |-> s]
         ELSE StealVoice(s)

(***************************************************************************)
(* MIDI handlers.                                                          *)
(***************************************************************************)
\* The loop shared in shape by NoteOn velocity 0 and NoteOff: every voice
\* with the note and its key down is released, its gate too unless the
\* pedal holds it.
ReleaseKeys(s, note) ==
    [s EXCEPT !.voices =
        [i \in VoiceIdx |->
            IF s.voices[i].note = note /\ s.voices[i].keyDown
            THEN [s.voices[i] EXCEPT
                    !.keyDown = FALSE,
                    !.gate = IF ~s.g_sustainOn THEN FALSE ELSE @]
            ELSE s.voices[i]]]

\* Variant: a note that finds the pool full is dropped.
StartVoice_DropWhenFull(s, note, velocity) ==
    IF FindExistingVoiceForNote(s, note) = -1 /\ FindIdleVoice(s) = -1
    THEN s
    ELSE LET a == AllocateVoiceForNote(s, note)
         IN  [a.st EXCEPT !.voices[a.v] =
                [@ EXCEPT !.note = note, !.vel = velocity,
                          !.keyDown = TRUE, !.gate = TRUE, !.active = TRUE]]

\* The melodic branch of HandleNoteOn (lines 516-524).
StartVoice(s, note, velocity) ==
    LET a == AllocateVoiceForNote(s, note)
    IN  IF a.v = -1 THEN a.st
        ELSE [a.st EXCEPT !.voices[a.v] =
                [@ EXCEPT !.note = note, !.vel = velocity,
                          !.keyDown = TRUE, !.gate = TRUE, !.active = TRUE]]

\* Variant: a key struck in poly-synth mode also triggers its drum.
HandleNoteOn_Layered(s, channel, note, velocity) ==
    IF channel # MidiCh_SYNTH THEN s
    ELSE IF velocity = 0 THEN ReleaseKeys(s, note)
    ELSE IF s.g_instrMode = MODE_DRUM_KIT THEN TriggerDrum(s, note, velocity)
    ELSE StartVoice(TriggerDrum(s, note, velocity), note, velocity)

HandleNoteOn(s, channel, note, velocity) ==
    IF channel # MidiCh_SYNTH THEN s
    ELSE IF velocity = 0 THEN ReleaseKeys(s, note)
    ELSE IF s.g_instrMode = MODE_DRUM_KIT THEN TriggerDrum(s, note, velocity)
    ELSE StartVoice(s, note, velocity)

\* Variant: the channel of a NoteOff is not checked.
HandleNoteOff_AnyChannel(s, channel, note, velocity) ==
    IF s.g_instrMode = MODE_DRUM_KIT THEN s
    ELSE ReleaseKeys(s, note)

HandleNoteOff(s, channel, note, velocity) ==
    IF channel # MidiCh_SYNTH THEN s
    ELSE IF s.g_instrMode = MODE_DRUM_KIT THEN s
    ELSE ReleaseKeys(s, note)


(***************************************************************************)
(* Looper.                                                                 *)
(***************************************************************************)
\* Variant: the play cursor is left where it was.
StopLooper_KeepPlayCursor(s) ==
    [s EXCEPT !.g_looperRecording = FALSE, !.g_looperPlaying = FALSE,
              !.g_looperWrite = 0, !.g_looperLength = 0]

StopLooper(s) ==
    [s EXCEPT !.g_looperRecording = FALSE, !.g_looperPlaying = FALSE,
              !.g_looperWrite = 0, !.g_looperLength = 0, !.g_looperPlay = 0]

StartLooperRecord(s) ==
    [s EXCEPT !.g_looperRecording = TRUE, !.g_looperPlaying = FALSE,
              !.g_looperWrite = 0, !.g_looperLength = 0]

\* Variant: the play cursor is left where it was.
FinishLooperRecord_KeepCursor(s) ==
    IF s.g_looperWrite > 0
    THEN [s EXCEPT !.g_looperRecording = FALSE,
                   !.g_looperLength = s.g_looperWrite,
                   !.g_looperPlaying = TRUE]
    ELSE [s EXCEPT !.g_looperRecording = FALSE]

FinishLooperRecord(s) ==
    IF s.g_looperWrite > 0
    THEN [s EXCEPT !.g_looperRecording = FALSE,
                   !.g_looperLength = s.g_looperWrite,
                   !.g_looperPlay = 0, !.g_looperPlaying = TRUE]
    ELSE [s EXCEPT !.g_looperRecording = FALSE]

\* Variant: playback resumes where it stopped.
ToggleLooperPlayback_Resume(s) ==
    IF s.g_looperLength = 0 THEN s
    ELSE [s EXCEPT !.g_looperPlaying = ~s.g_looperPlaying]

ToggleLooperPlayback(s) ==
    IF s.g_looperLength = 0 THEN s
    ELSE IF ~s.g_looperPlaying
         THEN [s EXCEPT !.g_looperPlaying = TRUE, !.g_looperPlay = 0]
         ELSE [s EXCEPT !.g_looperPlaying = FALSE]

\* case MidiCC::LOOPER_CONTROL of HandleCC
LooperControl(s, val) ==
    IF val < 20 THEN StopLooper(s)
    ELSE IF val < 80
         THEN IF ~s.g_looperRecording
              THEN StartLooperRecord(s) ELSE FinishLooperRecord(s)
         ELSE ToggleLooperPlayback(s)

\* The looper routines statement by statement, in program order.  The main
\* loop runs them with interrupts enabled, so AudioCallback can run between
\* any two statements.  A label names the statement executed next:
\* S1..S5 StopLooper, R1..R4 StartLooperRecord, F1..F5 FinishLooperRecord,
\* T1..T3 ToggleLooperPlayback.
StopLabels == {"S1", "S2", "S3", "S4", "S5"}
RecordLabels == {"R1", "R2", "R3", "R4"}
FinishLabels == {"F1", "F2", "F3", "F4", "F5"}
ToggleLabels == {"T1", "T2", "T3"}

\* case MidiCC::LOOPER_CONTROL: the routine the data byte selects; the
\* middle band reads g_looperRecording.
LooperEntry(s, val) ==
    IF val < 20 THEN "S1"
    ELSE IF val < 80
         THEN IF ~s.g_looperRecording THEN "R1" ELSE "F1"
         ELSE "T1"

\* One statement: the engine state and the label it leaves.
LooperStmt(s, p) ==
    CASE p = "S1" -> [st |-> [s EXCEPT !.g_looperRecording = FALSE], pc |-> "S2"]
      [] p = "S2" -> [st |-> [s EXCEPT !.g_looperPlaying = FALSE], pc |-> "S3"]
      [] p = "S3" -> [st |-> [s EXCEPT !.g_looperWrite = 0], pc |-> "S4"]
      [] p = "S4" -> [st |-> [s EXCEPT !.g_looperLength = 0], pc |-> "S5"]
      [] p = "S5" -> [st |-> [s EXCEPT !.g_looperPlay = 0], pc |-> "idle"]
      [] p = "R1" -> [st |-> [s EXCEPT !.g_looperRecording = TRUE], pc |-> "R2"]
      [] p = "R2" -> [st |-> [s EXCEPT !.g_looperPlaying = FALSE], pc |-> "R3"]
      [] p = "R3" -> [st |-> [s EXCEPT !.g_looperWrite = 0], pc |-> "R4"]
      [] p = "R4" -> [st |-> [s EXCEPT !.g_looperLength = 0], pc |-> "idle"]
      [] p = "F1" -> [st |-> [s EXCEPT !.g_looperRecording = FALSE], pc |-> "F2"]
      [] p = "F2" -> [st |-> s,
                      pc |-> IF s.g_looperWrite > 0 THEN "F3" ELSE "idle"]
      [] p = "F3" -> [st |-> [s EXCEPT !.g_looperLength = s.g_looperWrite], pc |-> "F4"]
      [] p = "F4" -> [st |-> [s EXCEPT !.g_looperPlay = 0], pc |-> "F5"]
      [] p = "F5" -> [st |-> [s EXCEPT !.g_looperPlaying = TRUE], pc |-> "idle"]
      [] p = "T1" -> [st |-> s,
                      pc |-> IF s.g_looperLength = 0 THEN "idle" ELSE "T2"]
      [] p = "T2" -> [st |-> [s EXCEPT !.g_looperPlaying = ~s.g_looperPlaying],
                      pc |-> "T3"]
      [] p = "T3" -> [st |-> IF s.g_looperPlaying
                             THEN [s EXCEPT !.g_looperPlay = 0] ELSE s,
                      pc |-> "idle"]
      [] OTHER -> [st |-> s, pc |-> "idle"]

(***************************************************************************)
(* Controllers and pitch bend.                                             *)
(***************************************************************************)
\* Variant: the pedal's release drops the gate of every voice.
SustainPedal_ReleaseAll(s, val) ==
    LET newSustain == (val >= 64)
    IN  IF newSustain /\ ~s.g_sustainOn
        THEN [s EXCEPT !.g_sustainOn = TRUE]
        ELSE IF ~newSustain /\ s.g_sustainOn
             THEN [s EXCEPT
                    !.g_sustainOn = FALSE,
                    !.voices =
                        [i \in VoiceIdx |->
                            [s.voices[i] EXCEPT !.gate = FALSE]]]
             ELSE s

\* Variant: releasing the pedal clears the flag and leaves the gates.
SustainPedal_FlagOnly(s, val) ==
    LET newSustain == (val >= 64)
    IN  IF newSustain /\ ~s.g_sustainOn
        THEN [s EXCEPT !.g_sustainOn = TRUE]
        ELSE IF ~newSustain /\ s.g_sustainOn
             THEN [s EXCEPT !.g_sustainOn = FALSE]
             ELSE s

\* case MidiCC::SUSTAIN_PEDAL of HandleCC
SustainPedal(s, val) ==
    LET newSustain == (val >= 64)
    IN  IF newSustain /\ ~s.g_sustainOn
        THEN [s EXCEPT !.g_sustainOn = TRUE]
        ELSE IF ~newSustain /\ s.g_sustainOn
             THEN [s EXCEPT
                    !.g_sustainOn = FALSE,
                    !.voices =
                        [i \in VoiceIdx |->
                            IF ~s.voices[i].keyDown /\ s.voices[i].gate
                            THEN [s.voices[i] EXCEPT !.gate = FALSE]
                            ELSE s.voices[i]]]
             ELSE s

\* Variant: a change of instrument mode silences the melodic voices.
InstrumentMode_AllNotesOff(s, val) ==
    [s EXCEPT
        !.g_instrMode = IF val >= 64 THEN MODE_DRUM_KIT ELSE MODE_POLY_SYNTH,
        !.voices =
            [i \in VoiceIdx |->
                [s.voices[i] EXCEPT !.keyDown = FALSE, !.gate = FALSE]]]

\* case MidiCC::INSTRUMENT_MODE of HandleCC
InstrumentMode(s, val) ==
    [s EXCEPT !.g_instrMode =
        IF val >= 64 THEN MODE_DRUM_KIT ELSE MODE_POLY_SYNTH]

\* float n = CCNorm(val): val / 127, no clamp.
CCNorm(v) == (v * Scale) \div 127

\* The value a parameter case of HandleCC stores for the normalised value n.
\* g_masterGain = powf(n, 1.5f) and g_cutoff = 80 * powf(125, n * n) are not
\* computed: the model keeps the n they are an increasing function of.
\* Variant: the delay feedback is computed as the delay time is, 0.02 + 0.98 n
\* with no upper clamp.
ParamValue_FeedbackAsTime(cc, n) ==
    CASE cc = CC_RESONANCE -> Milli(100) + MilliTimes(900, n)
      [] cc = CC_ATTACK -> Milli(1) + MilliTimes(2000, n)
      [] cc = CC_DECAY -> Milli(10) + MilliTimes(3000, n)
      [] cc = CC_RELEASE -> Milli(20) + MilliTimes(4000, n)
      [] cc = CC_DELAY_TIME -> Milli(20) + MilliTimes(980, n)
      [] cc = CC_DELAY_FEEDBACK -> Milli(20) + MilliTimes(980, n)
      [] cc = CC_VIBRATO_RATE -> Milli(100) + MilliTimes(8000, n)
      [] OTHER -> n

ParamValue(cc, n) ==
    CASE cc = CC_RESONANCE -> Milli(100) + MilliTimes(900, n)
      [] cc = CC_ATTACK -> Milli(1) + MilliTimes(2000, n)
      [] cc = CC_DECAY -> Milli(10) + MilliTimes(3000, n)
      [] cc = CC_RELEASE -> Milli(20) + MilliTimes(4000, n)
      [] cc = CC_DELAY_TIME -> Milli(20) + MilliTimes(980, n)
      [] cc = CC_DELAY_FEEDBACK ->
            Min(Milli(20) + MilliTimes(900, n), Milli(950))
      [] cc = CC_VIBRATO_RATE -> Milli(100) + MilliTimes(8000, n)
      [] OTHER -> n

\* The casts to size_t truncate; the truncated float products equal the
\* exact quotients for every controller value.
UpdateDelayParams(s) ==
    LET minDelay == SamplesOf(Milli(20))
        maxDelay == SamplesOf(Milli(1000))
        target == SamplesOf(s.params[CC_DELAY_TIME])
    IN  [s EXCEPT !.g_delaySamples = Min(Max(target, minDelay), maxDelay)]

\* The parameter cases of HandleCC.
StoreParam(s, cc, val) ==
    LET t == [s EXCEPT !.params[cc] = ParamValue(cc, CCNorm(val))]
    IN  IF cc = CC_DELAY_TIME THEN UpdateDelayParams(t) ELSE t

HandleCC(s, channel, cc, val) ==
    IF channel # MidiCh_SYNTH THEN s
    ELSE CASE cc \in ParamCCs -> StoreParam(s, cc, val)
           [] cc = CC_SUSTAIN_PEDAL -> SustainPedal(s, val)
           [] cc = CC_INSTRUMENT_MODE -> InstrumentMode(s, val)
           [] cc = CC_LOOPER_CONTROL -> LooperControl(s, val)
           [] OTHER -> s

\* g_pitchBendSemi is kept in 1/4096 semitone: norm * kPitchBendRange =
\* centered / 8192 * 2 = centered / 4096.
\* Variant: no dead zone around the centre.
HandlePitchBend_NoDeadZone(s, channel, lsb, msb) ==
    IF channel # MidiCh_SYNTH THEN s
    ELSE LET value14 == ((msb * 128) % 65536) + lsb
             centered == value14 - PitchBendCenter
         IN  [s EXCEPT !.g_pitchBendSemi =
                        Max(-PitchBendCenter, Min(PitchBendCenter, centered))]

\* Variant: the high data byte is shifted by eight bits instead of seven.
HandlePitchBend_ByteShift(s, channel, lsb, msb) ==
    IF channel # MidiCh_SYNTH THEN s
    ELSE LET value14 == ((msb * 256) % 65536) + lsb
             centered == value14 - PitchBendCenter
         IN  IF centered > -PitchBendDead /\ centered < PitchBendDead
             THEN [s EXCEPT !.g_pitchBendSemi = 0]
             ELSE [s EXCEPT !.g_pitchBendSemi =
                        Max(-PitchBendCenter, Min(PitchBendCenter, centered))]

HandlePitchBend(s, channel, lsb, msb) ==
    IF channel # MidiCh_SYNTH THEN s
    ELSE LET value14 == ((msb * 128) % 65536) + lsb
             centered == value14 - PitchBendCenter
         IN  IF centered > -PitchBendDead /\ centered < PitchBendDead
             THEN [s EXCEPT !.g_pitchBendSemi = 0]
             ELSE [s EXCEPT !.g_pitchBendSemi =
                        Max(-PitchBendCenter, Min(PitchBendCenter, centered))]

(***************************************************************************)
(* One iteration of the sample loop of AudioCallback.                      *)
(***************************************************************************)
\* Variant: a released voice whose envelope has died is never marked inactive.
RenderVoice_NeverIdle(v) ==
    IF ~v.active /\ ~v.keyDown /\ ~v.gate THEN v
    ELSE [v EXCEPT !.env = EnvProcess(v.env, v.gate)]

\* Variant: a released voice is marked inactive whatever its envelope.
RenderVoice_IgnoresEnvelope(v) ==
    IF ~v.active /\ ~v.keyDown /\ ~v.gate THEN v
    ELSE LET envOut == EnvProcess(v.env, v.gate)
         IN  IF ~v.gate /\ ~v.keyDown
             THEN [v EXCEPT !.env = envOut, !.active = FALSE]
             ELSE [v EXCEPT !.env = envOut]

\* The voice loop, for one voice.
RenderVoice(v) ==
    IF ~v.active /\ ~v.keyDown /\ ~v.gate THEN v
    ELSE LET envOut == EnvProcess(v.env, v.gate)
         IN  IF ~v.gate /\ ~v.keyDown /\ envOut < 1
             THEN [v EXCEPT !.env = envOut, !.active = FALSE]
             ELSE [v EXCEPT !.env = envOut]

\* Variant: the capacity test lets one more sample through.
RenderLooperRecord_OneMore(s) ==
    IF s.g_looperRecording /\ s.g_looperWrite <= kLooperMaxSamples
    THEN [s EXCEPT !.g_looperWrite = s.g_looperWrite + 1]
    ELSE IF s.g_looperRecording /\ s.g_looperWrite > kLooperMaxSamples
         THEN FinishLooperRecord(s)
         ELSE s

\* Looper record on the post-FX sample.
RenderLooperRecord(s) ==
    IF s.g_looperRecording /\ s.g_looperWrite < kLooperMaxSamples
    THEN [s EXCEPT !.g_looperWrite = s.g_looperWrite + 1]
    ELSE IF s.g_looperRecording /\ s.g_looperWrite >= kLooperMaxSamples
         THEN FinishLooperRecord(s)
         ELSE s

\* Variant: the cursor wraps one sample late.
RenderLooperPlay_LateWrap(s) ==
    IF s.g_looperPlaying /\ s.g_looperLength > 0
    THEN [s EXCEPT !.g_looperPlay =
            IF s.g_looperPlay + 1 > s.g_looperLength
            THEN 0 ELSE s.g_looperPlay + 1]
    ELSE s

\* Looper playback into the output sample.
RenderLooperPlay(s) ==
    IF s.g_looperPlaying /\ s.g_looperLength > 0
    THEN [s EXCEPT !.g_looperPlay =
            IF s.g_looperPlay + 1 >= s.g_looperLength
            THEN 0 ELSE s.g_looperPlay + 1]
    ELSE s

\* The voice loop of one sample.
RenderVoices(s) ==
    [s EXCEPT !.voices = [i \in VoiceIdx |-> RenderVoice(s.voices[i])]]

RenderSample(s) ==
    RenderLooperPlay(RenderLooperRecord(ProcessDrums(RenderVoices(s))))

(***************************************************************************)
(* Initial state: the globals' initialisers and InitSynth.                 *)
(***************************************************************************)
InitVoice ==
    [note |-> InitNote, active |-> FALSE, gate |-> FALSE, keyDown |-> FALSE,
     vel |-> 0, env |-> 0]

InitDrumVoice ==
    [type |-> "DRUM_KICK", env |-> 0, noiseEnv |-> 0, velocity |-> 0,
     active |-> FALSE]

\* The initialisers of the parameter globals; g_masterGain = 0.4 and
\* g_cutoff = 3000 Hz are kept as -1, "not set by a controller".
InitParams ==
    [cc \in ParamCCs |->
        CASE cc \in {CC_VOLUME, CC_CUTOFF} -> -1
          [] cc \in {CC_RESONANCE, CC_DECAY, CC_DELAY_MIX, CC_REVERB_MIX} -> Milli(250)
          [] cc = CC_ATTACK -> Milli(10)
          [] cc = CC_SUSTAIN -> Milli(800)
          [] cc = CC_RELEASE -> Milli(400)
          [] cc = CC_VIBRATO_RATE -> Milli(5000)
          [] cc \in {CC_DELAY_TIME, CC_DELAY_FEEDBACK} -> Milli(350)
          [] cc = CC_REVERB_TIME -> Milli(650)
          [] cc = CC_BASS_BOOST -> Milli(600)
          [] cc = CC_DRIVE -> Milli(150)
          [] cc = CC_LOOPER_LEVEL -> Milli(700)
          [] OTHER -> 0]

\* enum PlayMode of the sketch.
MODE_SINGLE == 0
MODE_CHORD == 1
MODE_SCALE == 2
MODE_DRUM == 3
NUM_PLAY_MODES == 4

\* The keys scanned, of the sketch's 20 (indices 0 .. 19).
KeyIdx == {1, 2}

\* C3, the note of the first key.
ROOT_NOTE == 48

NUM_CHORD_TYPES == 5
NUM_SCALE_TYPES == 5

\* scaleSteps and scaleSizes, by scale type (Major, Dorian, Natural minor,
\* Major pentatonic, Minor pentatonic).
scaleSteps ==
    << << 0, 2, 4, 5, 7, 9, 11, 12 >>,
       << 0, 2, 3, 5, 7, 9, 10, 12 >>,
       << 0, 2, 3, 5, 7, 8, 10, 12 >>,
       << 0, 2, 4, 7, 9, 12, 14, 16 >>,
       << 0, 3, 5, 7, 10, 12, 15, 17 >> >>

scaleSizes == << 7, 7, 7, 5, 5 >>

\* drumNoteMap
drumNoteMap ==
    << 36, 38, 39, 41, 45, 42, 46, 49, 51, 46,
       36, 38, 43, 47, 49, 42, 46, 49, 51, 46 >>

\* chordIntervals, the first chordSizes entries of each row (Maj, Min,
\* Dom7, Min7, Dim7).
chordIntervals ==
    << << 0, 4, 7 >>, << 0, 3, 7 >>, << 0, 4, 7, 10 >>,
       << 0, 3, 7, 10 >>, << 0, 3, 6, 9 >> >>

\* encoderParams: the value each encoder slot starts with, by controller.
EncoderDef ==
    [cc \in ParamCCs \ {CC_MODWHEEL} |->
        CASE cc = CC_CUTOFF -> 96
          [] cc = CC_RESONANCE -> 32
          [] cc = CC_DELAY_TIME -> 64
          [] cc = CC_DELAY_FEEDBACK -> 72
          [] cc = CC_DELAY_MIX -> 40
          [] cc = CC_REVERB_MIX -> 64
          [] cc = CC_REVERB_TIME -> 80
          [] cc = CC_BASS_BOOST -> 72
          [] cc = CC_DRIVE -> 32
          [] cc = CC_VOLUME -> 110
          [] cc = CC_ATTACK -> 10
          [] cc = CC_DECAY -> 64
          [] cc = CC_SUSTAIN -> 100
          [] cc = CC_RELEASE -> 40
          [] cc = CC_VIBRATO_RATE -> 64
          [] OTHER -> 96]

\* The control surface after setup(): the globals as initialised, millis()
\* at 0.
InitUi ==
    [ bootPressed |-> FALSE, bootLongFired |-> FALSE, bootPressStartMs |-> 0,
      dfuFlash |-> FALSE, rstFlash |-> FALSE, nowMs |-> 0,
      looperRecordingUI |-> FALSE, looperPlayingUI |-> FALSE,
      looperHasLoopUI |-> FALSE,
      btnPrevSEL |-> FALSE, btnPrevSTART |-> FALSE,
      startPressing |-> FALSE, startPressStartMs |-> 0,
      g_playMode |-> MODE_SINGLE, btnPrevA |-> FALSE,
      encValue |-> EncoderDef,
      g_chordType |-> 0, g_scaleType |-> 0, btnPrevB |-> FALSE,
      noteForIndex |-> [i \in KeyIdx |-> ROOT_NOTE + i],
      keyPrev |-> [i \in KeyIdx |-> FALSE],
      keyState |-> [i \in KeyIdx |-> [pressed |-> FALSE, notes |-> << >>]],
      padOK |-> TRUE, joyCenterX |-> 512, joyCenterY |-> 512,
      joyX |-> 512, joyY |-> 512, lastPB |-> 8192, lastMod |-> 255 ]

Init ==
    /\ voices = [i \in VoiceIdx |-> InitVoice]
    /\ voiceRotate = 0
    /\ g_sustainOn = FALSE
    /\ g_instrMode = MODE_POLY_SYNTH
    /\ g_pitchBendSemi = 0
    /\ params = InitParams
    /\ g_delaySamples =
          UpdateDelayParams([params |-> InitParams, g_delaySamples |-> 0]).g_delaySamples
    /\ drumVoices = [i \in DrumIdx |-> InitDrumVoice]
    /\ g_looperRecording = FALSE
    /\ g_looperPlaying = FALSE
    /\ g_looperWrite = 0
    /\ g_looperLength = 0
    /\ g_looperPlay = 0
    /\ midiq = << >>
    /\ pc = "idle"
    /\ blockPos = 0
    /\ irqRan = FALSE
    /\ local = NoLocals
    /\ ui = InitUi

(***************************************************************************)
(* Actions.                                                                *)
(***************************************************************************)
\* The variables take the values of the engine state t.
Becomes(t) ==
    /\ voices' = t.voices
    /\ voiceRotate' = t.voiceRotate
    /\ g_sustainOn' = t.g_sustainOn
    /\ g_instrMode' = t.g_instrMode
    /\ g_pitchBendSemi' = t.g_pitchBendSemi
    /\ params' = t.params
    /\ g_delaySamples' = t.g_delaySamples
    /\ drumVoices' = t.drumVoices
    /\ g_looperRecording' = t.g_looperRecording
    /\ g_looperPlaying' = t.g_looperPlaying
    /\ g_looperWrite' = t.g_looperWrite
    /\ g_looperLength' = t.g_looperLength
    /\ g_looperPlay' = t.g_looperPlay

\* Inputs of the commands.
Channels == {0, MidiCh_SYNTH}
Notes == InitNote .. (InitNote + kNumVoices)
Velocities == {0, 100}
PedalVals == {0, 127}

NoteOn(channel, note, velocity) ==
    /\ channel \in 0 .. 15 /\ note \in 0 .. 127 /\ velocity \in 0 .. 127
    /\ Becomes(HandleNoteOn(St, channel, note, velocity))
    /\ UNCHANGED ctx

NoteOff(channel, note) ==
    /\ channel \in 0 .. 15 /\ note \in 0 .. 127
    /\ Becomes(HandleNoteOff(St, channel, note, 64))
    /\ UNCHANGED ctx

ControlChange(channel, cc, val) ==
    /\ channel \in 0 .. 15 /\ cc \in 0 .. 127 /\ val \in 0 .. 127
    /\ Becomes(HandleCC(St, channel, cc, val))
    /\ UNCHANGED ctx

PitchBend(channel, lsb, msb) ==
    /\ channel \in 0 .. 15 /\ lsb \in 0 .. 127 /\ msb \in 0 .. 127
    /\ Becomes(HandlePitchBend(St, channel, lsb, msb))
    /\ UNCHANGED ctx

\* One sample of AudioCallback, stage by stage as RenderSample composes them.
Render ==
    \E s1 \in {RenderVoices(St)} :
    \E s2 \in {ProcessDrums(s1)} :
    \E s3 \in {RenderLooperRecord(s2)} :
    \E t \in {RenderLooperPlay(s3)} : Becomes(t) /\ UNCHANGED ctx

\* Inputs of the looper controller: the bands' edges and the values the
\* control surface sends (0, 40, 80).
LooperVals == {0, 19, 20, 40, 79, 80, 127}

\* A NoteOn of melodic playing: keys are struck in poly-synth mode and
\* released (velocity 0) in either mode.
MelodicNoteOn(note, velocity) ==
    /\ velocity = 0 \/ g_instrMode = MODE_POLY_SYNTH
    /\ NoteOn(MidiCh_SYNTH, note, velocity)

\* Melodic playing: note events, the pedal, the instrument mode, and render.
NextVoice ==
    \/ \E n \in Notes, v \in Velocities : MelodicNoteOn(n, v)
    \/ \E n \in Notes : NoteOff(MidiCh_SYNTH, n)
    \/ \E val \in PedalVals : ControlChange(MidiCh_SYNTH, CC_SUSTAIN_PEDAL, val)
    \/ \E val \in PedalVals : ControlChange(MidiCh_SYNTH, CC_INSTRUMENT_MODE, val)
    \/ Render

SpecVoice == Init /\ [][NextVoice]_vars

\* The audio clock keeps calling AudioCallback.
SpecVoiceFair == SpecVoice /\ WF_vars(Render)

\* Keys and render alone: poly-synth mode, the sustain pedal never pressed.
NextRelease ==
    \/ \E n \in Notes, v \in Velocities : MelodicNoteOn(n, v)
    \/ \E n \in Notes : NoteOff(MidiCh_SYNTH, n)
    \/ Render

SpecReleaseFair == Init /\ [][NextRelease]_vars /\ WF_vars(Render)

\* The looper: its controller and render.
NextLooper ==
    \/ \E val \in LooperVals : ControlChange(MidiCh_SYNTH, CC_LOOPER_CONTROL, val)
    \/ Render

SpecLooper == Init /\ [][NextLooper]_vars

\* The bend wheel: both data bytes over their range.
BendLsbs == {0, 1, 64, 127}
BendMsbs == 0 .. 127

NextBend ==
    \E ch \in Channels, lsb \in BendLsbs, msb \in BendMsbs : PitchBend(ch, lsb, msb)

SpecBend == Init /\ [][NextBend]_vars

(***************************************************************************)
(* The firmware's two contexts.  main() starts the audio stream and then   *)
(* loops on ProcessMidi; AudioCallback runs from the audio interrupt: it   *)
(* preempts the main loop between any two of its statements and renders a  *)
(* whole block before the main loop resumes.  The callback returns before  *)
(* the next block is due, so a running handler executes at least one       *)
(* statement between two blocks.                                           *)
(***************************************************************************)
\* Looper-control bytes the control surface sends: stop, record, play.
CtlVals == {0, 40, 80}

\* The UART receives a looper-control message; it waits in the FIFO.
MidiArrive(val) ==
    /\ Len(midiq) < MaxQueue
    /\ midiq' = Append(midiq, val)
    /\ UNCHANGED << engine, pc, blockPos, irqRan, local, ui >>

\* Variant: the newest event is popped first.
PopEvent_Newest ==
    /\ blockPos = 0 /\ pc = "idle" /\ midiq # << >>
    /\ pc' = LooperEntry(St, midiq[Len(midiq)])
    /\ midiq' = SubSeq(midiq, 1, Len(midiq) - 1)
    /\ irqRan' = FALSE
    /\ UNCHANGED << engine, blockPos, local, ui >>

\* ProcessMidi: the previous handler has returned; pop the oldest event and
\* enter the handler of its controller.
PopEvent ==
    /\ blockPos = 0 /\ pc = "idle" /\ midiq # << >>
    /\ pc' = LooperEntry(St, Head(midiq))
    /\ midiq' = Tail(midiq)
    /\ irqRan' = FALSE
    /\ UNCHANGED << engine, blockPos, local, ui >>

\* Variant: the main loop also runs while a block is being rendered.
HandlerStep_MidBlock ==
    /\ pc # "idle"
    /\ \E r \in {LooperStmt(St, pc)} : Becomes(r.st) /\ pc' = r.pc
    /\ irqRan' = FALSE
    /\ UNCHANGED << midiq, blockPos, local, ui >>

\* The main loop executes the handler's next statement.
HandlerStep ==
    /\ blockPos = 0 /\ pc # "idle"
    /\ \E r \in {LooperStmt(St, pc)} : Becomes(r.st) /\ pc' = r.pc
    /\ irqRan' = FALSE
    /\ UNCHANGED << midiq, blockPos, local, ui >>

\* One iteration of AudioCallback's sample loop; the block ends after
\* BlockSize of them.
AudioCallbackSample ==
    /\ blockPos > 0 \/ pc = "idle" \/ ~irqRan
    /\ Becomes(RenderSample(St))
    /\ blockPos' = (blockPos + 1) % BlockSize
    /\ irqRan' = (pc # "idle")
    /\ UNCHANGED << midiq, pc, local, ui >>

NextFirmware ==
    \/ \E val \in CtlVals : MidiArrive(val)
    \/ PopEvent
    \/ HandlerStep
    \/ AudioCallbackSample

SpecFirmware == Init /\ [][NextFirmware]_vars


(***************************************************************************)
(* Properties of the voice pool.                                           *)
(***************************************************************************)
Held(v) == v.keyDown /\ v.gate /\ v.active
Sounding == { i \in VoiceIdx : voices[i].active \/ voices[i].keyDown }

\* C1: no two voices have keyDown = true with the same note, and the number
\* of voices with active || keyDown never exceeds the pool size.
C1_KeyDownNotesDistinct ==
    /\ \A i, j \in VoiceIdx :
          (i # j /\ voices[i].keyDown /\ voices[j].keyDown)
              => voices[i].note # voices[j].note
    /\ Cardinality(Sounding) <= kNumVoices

\* The pool is full of held keys after a NoteOn that had to steal.
C1_Witness ==
    /\ \A i \in VoiceIdx : voices[i].keyDown
    /\ voiceRotate # 0

\* The voices a melodic NoteOn may select, in the order of the claim.
ExistingFor(note) ==
    { i \in VoiceIdx :
        voices[i].note = note /\ (voices[i].active \/ voices[i].keyDown) }
IdleVoices == { i \in VoiceIdx : ~voices[i].active /\ ~voices[i].keyDown }
Selectable(note) ==
    IF ExistingFor(note) # {} THEN ExistingFor(note)
    ELSE IF IdleVoices # {} THEN IdleVoices
    ELSE {voiceRotate}
IsSteal(note) == ExistingFor(note) = {} /\ IdleVoices = {}

\* Velocities of a NoteOn that starts a note.
HitVelocities == {1, 100, 127}

\* C5: from every reachable poly-synth state, a NoteOn with velocity > 0
\* takes a voice that has the note and is active or keyDown, else a voice
\* that is neither, else the voice at the cursor; the cursor advances by one
\* modulo N exactly on a steal; no other voice is modified.
C5_AllocationOrder ==
    g_instrMode = MODE_POLY_SYNTH =>
        \A n \in Notes, v \in HitVelocities :
            LET t == HandleNoteOn(St, MidiCh_SYNTH, n, v)
            IN  /\ \E k \in Selectable(n) :
                      /\ t.voices[k] =
                            [voices[k] EXCEPT !.note = n, !.vel = v,
                                !.keyDown = TRUE, !.gate = TRUE, !.active = TRUE]
                      /\ \A j \in VoiceIdx \ {k} : t.voices[j] = voices[j]
                /\ t.voiceRotate =
                      IF IsSteal(n) THEN (voiceRotate + 1) % kNumVoices
                      ELSE voiceRotate

\* Steals have brought the cursor to the last voice, the pool is full again,
\* and the NoteOn of a new note steals that voice and wraps the cursor to 0.
C5_Witness ==
    /\ g_instrMode = MODE_POLY_SYNTH
    /\ voiceRotate = kNumVoices - 1
    /\ \E n \in Notes :
          /\ IsSteal(n)
          /\ HandleNoteOn(St, MidiCh_SYNTH, n, 100).voiceRotate = 0
          /\ HandleNoteOn(St, MidiCh_SYNTH, n, 100).voices[kNumVoices - 1].note = n

\* C6: from every reachable poly-synth state, the pool full or not, after a
\* NoteOn with velocity > 0 exactly one voice has the note with keyDown,
\* gate and active all true.
C6_NoteOnNeverDropped ==
    g_instrMode = MODE_POLY_SYNTH =>
        \A n \in Notes, v \in HitVelocities :
            LET t == HandleNoteOn(St, MidiCh_SYNTH, n, v)
            IN  Cardinality({ i \in VoiceIdx :
                    t.voices[i].note = n /\ Held(t.voices[i]) }) = 1

\* Every voice is held and a further note has just taken a voice from them.
C6_Witness ==
    /\ g_instrMode = MODE_POLY_SYNTH
    /\ voiceRotate # 0
    /\ \A i \in VoiceIdx : Held(voices[i])
    /\ \E i \in VoiceIdx : voices[i].note = InitNote + kNumVoices


(***************************************************************************)
(* Note release and the sustain pedal.                                     *)
(***************************************************************************)
Sustained(v) == ~v.keyDown /\ v.gate
Releasing(v) == ~v.keyDown /\ ~v.gate /\ v.active
Idle(v) == ~v.active /\ ~v.keyDown /\ ~v.gate

\* Data bytes of the pedal controller on both sides of the threshold 64.
PedalBytes == {0, 1, 63, 64, 127}

\* C2: with the pedal on, a NoteOff for a held note leaves its voice with
\* keyDown = false and gate = true; the voice stays so across render, other
\* NoteOffs and pedal values >= 64; a pedal value < 64 sets its gate to false.
C2_SustainRoundTrip ==
    g_sustainOn =>
        /\ \A i \in VoiceIdx :
              voices[i].keyDown =>
                  Sustained(HandleNoteOff(St, MidiCh_SYNTH, voices[i].note, 64).voices[i])
        /\ \A i \in VoiceIdx :
              Sustained(voices[i]) =>
                  /\ Sustained(RenderSample(St).voices[i])
                  /\ \A n \in Notes :
                        Sustained(HandleNoteOff(St, MidiCh_SYNTH, n, 64).voices[i])
                  /\ \A val \in PedalBytes :
                        LET t == HandleCC(St, MidiCh_SYNTH, CC_SUSTAIN_PEDAL, val)
                        IN  IF val >= 64 THEN Sustained(t.voices[i])
                            ELSE ~t.voices[i].gate

\* C3: after a NoteOff(note) on the synthesis channel, in either instrument
\* mode, no voice with that note has keyDown = true, and with the pedal off
\* every voice that had the note with keyDown = true has gate = false.
C3_NoteOffReleasesKeys ==
    \A n \in Notes :
        LET t == HandleNoteOff(St, MidiCh_SYNTH, n, 64)
        IN  /\ \A i \in VoiceIdx :
                  t.voices[i].note = n => ~t.voices[i].keyDown
            /\ ~g_sustainOn =>
                  \A i \in VoiceIdx :
                      (voices[i].note = n /\ voices[i].keyDown) => ~t.voices[i].gate

\* C4: in every reachable state, for every note, NoteOn(note, velocity 0)
\* and NoteOff(note) leave the same engine state.
C4_NoteOnZeroIsNoteOff ==
    \A n \in Notes :
        HandleNoteOn(St, MidiCh_SYNTH, n, 0) = HandleNoteOff(St, MidiCh_SYNTH, n, 64)

\* C7: CC64 < 64 with the pedal on sets gate = false on exactly the voices
\* with keyDown = false and gate = true; voices with keyDown = true keep
\* gate = true; no keyDown, note or active changes.  A CC64 that does not
\* change the pedal state changes no voice.
C7_PedalRelease ==
    \A val \in PedalBytes :
        LET t == HandleCC(St, MidiCh_SYNTH, CC_SUSTAIN_PEDAL, val)
        IN  /\ (g_sustainOn /\ val < 64) =>
                \A i \in VoiceIdx :
                    /\ t.voices[i].gate =
                          IF Sustained(voices[i]) THEN FALSE ELSE voices[i].gate
                    /\ voices[i].keyDown => t.voices[i].gate
                    /\ t.voices[i].keyDown = voices[i].keyDown
                    /\ t.voices[i].note = voices[i].note
                    /\ t.voices[i].active = voices[i].active
            /\ ((val >= 64) = g_sustainOn) => t.voices = voices

\* The pedal is on over a voice it sustains and a voice whose key is down:
\* its release drops the first gate and keeps the second.
C7_Witness ==
    /\ g_sustainOn
    /\ \E i, j \in VoiceIdx :
          /\ Sustained(voices[i])
          /\ Held(voices[j])
          /\ LET t == HandleCC(St, MidiCh_SYNTH, CC_SUSTAIN_PEDAL, 0)
             IN  Releasing(t.voices[i]) /\ Held(t.voices[j])

\* Commands tried against a held voice.
AnyVelocities == {0, 1, 127}
AnyCCs == ParamCCs \cup {CC_SUSTAIN_PEDAL, CC_INSTRUMENT_MODE, CC_LOOPER_CONTROL, 22}
AnyCCVals == {0, 40, 127}
AnyBendBytes == {0, 64, 127}

\* The voice i is still held with its note in the engine state t.
StillHeld(t, i) == Held(t.voices[i]) /\ t.voices[i].note = voices[i].note

\* C8: a voice with keyDown, gate and active true keeps them across a render
\* step and across every command, except a NoteOff or a NoteOn with
\* velocity 0 for its note and a NoteOn that steals it.
C8_HeldVoiceStaysHeld ==
    \A i \in VoiceIdx :
        Held(voices[i]) =>
            /\ StillHeld(RenderSample(St), i)
            /\ \A ch \in Channels, n \in Notes :
                  /\ \A v \in AnyVelocities :
                        \/ v = 0 /\ n = voices[i].note
                        \/ v > 0 /\ IsSteal(n) /\ voiceRotate = i
                        \/ StillHeld(HandleNoteOn(St, ch, n, v), i)
                  /\ \/ n = voices[i].note
                     \/ StillHeld(HandleNoteOff(St, ch, n, 64), i)
            /\ \A cc \in AnyCCs, val \in AnyCCVals :
                  StillHeld(HandleCC(St, MidiCh_SYNTH, cc, val), i)
            /\ \A lsb, msb \in AnyBendBytes :
                  StillHeld(HandlePitchBend(St, MidiCh_SYNTH, lsb, msb), i)

\* A held voice at full level that has come through render, a pedal press and
\* a switch to the drum kit, beside a voice that is no longer held.
C8_Witness ==
    /\ g_instrMode = MODE_DRUM_KIT
    /\ g_sustainOn
    /\ \E i, j \in VoiceIdx :
          /\ Held(voices[i]) /\ voices[i].env = EnvMax
          /\ voices[j].active /\ ~voices[j].keyDown

\* C9: a held voice is active; in poly-synth mode with the pedal off the
\* NoteOff of a held note puts its voice in release; and with render running
\* a voice in release becomes idle (active, keyDown and gate all false)
\* unless a NoteOn takes it again.
C9_ReleasedVoiceGoesIdle ==
    /\ [](\A i \in VoiceIdx : voices[i].keyDown => voices[i].active)
    /\ []((g_instrMode = MODE_POLY_SYNTH /\ ~g_sustainOn) =>
            \A i \in VoiceIdx :
                Held(voices[i]) =>
                    Releasing(HandleNoteOff(St, MidiCh_SYNTH, voices[i].note, 64).voices[i]))
    /\ \A i \in VoiceIdx :
          Releasing(voices[i]) ~> (Idle(voices[i]) \/ voices[i].keyDown)

\* A voice that was played (its velocity is set) is idle again, pedal off.
C9_Witness ==
    /\ g_instrMode = MODE_POLY_SYNTH
    /\ ~g_sustainOn
    /\ \E i \in VoiceIdx : Idle(voices[i]) /\ voices[i].vel > 0 /\ voices[i].env = 0

(***************************************************************************)
(* Looper.                                                                 *)
(***************************************************************************)
\* C10: a looper-control value < 20 leaves the looper EMPTY from every
\* state: not recording, not playing, length 0, both cursors 0.
C10_StopClearsLooper ==
    \A val \in 0 .. 19 :
        LET t == HandleCC(St, MidiCh_SYNTH, CC_LOOPER_CONTROL, val)
        IN  /\ ~t.g_looperRecording
            /\ ~t.g_looperPlaying
            /\ t.g_looperLength = 0
            /\ t.g_looperWrite = 0
            /\ t.g_looperPlay = 0

\* A loop recorded to capacity is playing, its cursor past the start.
C10_Witness ==
    /\ g_looperPlaying
    /\ g_looperLength = kLooperMaxSamples
    /\ g_looperWrite = kLooperMaxSamples
    /\ g_looperPlay > 0
    /\ HandleCC(St, MidiCh_SYNTH, CC_LOOPER_CONTROL, 0) # St


\* The main loop is between two events: no handler is running.
MainIdle == pc = "idle"

\* A step that is one rendered sample.
SampleStep == blockPos' # blockPos

\* A handler has executed some but not all of its statements.
MidHandler == pc \notin {"idle", "S1", "R1", "F1", "T1"}

\* The middle band of the looper controller.
RecordVals == {20, 40, 79}

\* The upper band of the looper controller.
PlayVals == {80, 127}

\* C11: when a looper-control command of the middle band that found the
\* looper not recording has run StartLooperRecord to its end, the looper is
\* recording, playback is stopped and the recorded length is 0 (the write
\* cursor, set to 0 by the routine, counts the samples captured since).
C11_RecordCommandStartsRecording ==
    [][(pc \in RecordLabels /\ pc' = "idle") =>
          /\ g_looperRecording'
          /\ ~g_looperPlaying'
          /\ g_looperLength' = 0]_vars

C13_TogglePlayback ==
    /\ [](MainIdle =>
            \A val \in PlayVals :
                LET t == HandleCC(St, MidiCh_SYNTH, CC_LOOPER_CONTROL, val)
                    u == HandleCC(t, MidiCh_SYNTH, CC_LOOPER_CONTROL, val)
                IN  /\ g_looperLength = 0 => t = St
                    /\ g_looperLength > 0 =>
                          /\ t.g_looperPlaying = ~g_looperPlaying
                          /\ t.g_looperPlaying => t.g_looperPlay = 0
                          /\ t.g_looperLength = g_looperLength
                          /\ t.g_looperRecording = g_looperRecording
                    /\ (g_looperPlaying /\ g_looperLength > 0) =>
                          /\ ~t.g_looperPlaying
                          /\ u.g_looperPlaying
                          /\ u.g_looperPlay = 0
                          /\ u.g_looperLength = g_looperLength)
    /\ [][(pc = "T1" /\ g_looperLength = 0 /\ pc' # pc) =>
            (pc' = "idle" /\ UNCHANGED engine)]_vars
    /\ [][(pc = "T2" /\ pc' # pc) =>
            g_looperPlaying' = ~g_looperPlaying]_vars
    /\ [][(pc = "T3" /\ pc' = "idle" /\ g_looperPlaying') =>
            g_looperPlay' = 0]_vars

\* A stopped loop whose cursor is past the start is being toggled: playback
\* is on again and the cursor is about to be reset.
C13_Witness ==
    /\ pc = "T3"
    /\ g_looperPlaying /\ ~g_looperRecording
    /\ g_looperLength > 1 /\ g_looperPlay > 0

\* C14: the write cursor never exceeds the capacity; a sample is captured
\* only at an index below the capacity; and the sample rendered with the
\* buffer full ends the recording with exactly capacity samples, playing.
C14_RecordingStopsAtCapacity ==
    /\ g_looperWrite <= kLooperMaxSamples
    /\ LET t == RenderLooperRecord(St)
       IN  /\ t.g_looperWrite # g_looperWrite =>
                 /\ g_looperRecording
                 /\ g_looperWrite < kLooperMaxSamples
                 /\ t.g_looperWrite = g_looperWrite + 1
           /\ (g_looperRecording /\ g_looperWrite < kLooperMaxSamples) =>
                 /\ t.g_looperRecording
                 /\ t.g_looperWrite = g_looperWrite + 1
           /\ (g_looperRecording /\ g_looperWrite >= kLooperMaxSamples) =>
                 /\ ~t.g_looperRecording
                 /\ t.g_looperPlaying
                 /\ t.g_looperWrite = kLooperMaxSamples
                 /\ t.g_looperLength = kLooperMaxSamples
                 /\ RenderSample(St).g_looperPlaying
                 /\ RenderSample(St).g_looperLength = kLooperMaxSamples

\* The sample after the buffer filled has just ended the recording.
C14_Witness ==
    /\ MainIdle
    /\ ~g_looperRecording /\ g_looperPlaying
    /\ g_looperWrite = kLooperMaxSamples
    /\ g_looperLength = kLooperMaxSamples
    /\ g_looperPlay = 1

\* C15: while a non-empty loop plays, the play cursor is below the recorded
\* length and the length within the capacity; a rendered sample reads at the
\* cursor, inside the recorded region, and moves it to the next index,
\* index 0 following the last one; without playback the cursor stays.
C15_PlayCursorInLoop ==
    /\ (g_looperPlaying /\ g_looperLength > 0) =>
          /\ g_looperPlay < g_looperLength
          /\ g_looperLength <= kLooperMaxSamples
    /\ LET s3 == RenderLooperRecord(ProcessDrums(RenderVoices(St)))
           t == RenderSample(St)
       IN  IF s3.g_looperPlaying /\ s3.g_looperLength > 0
           THEN /\ s3.g_looperPlay < s3.g_looperLength
                /\ t.g_looperPlay = (s3.g_looperPlay + 1) % s3.g_looperLength
                /\ (t.g_looperPlay = 0) = (s3.g_looperPlay + 1 = s3.g_looperLength)
           ELSE t.g_looperPlay = s3.g_looperPlay

\* A loop shorter than the buffer plays its last sample next.
C15_Witness ==
    /\ g_looperPlaying
    /\ g_looperLength > 1 /\ g_looperLength < kLooperMaxSamples
    /\ g_looperPlay = g_looperLength - 1

\* C16: between two events the looper is in one of the four states: the
\* recording and playing flags are not both true, recording implies recorded
\* length 0, playing implies recorded length > 0.
C16_LooperInOneState ==
    MainIdle =>
        /\ ~(g_looperRecording /\ g_looperPlaying)
        /\ g_looperRecording => g_looperLength = 0
        /\ g_looperPlaying => g_looperLength > 0

\* C17: AudioCallback never renders a sample while a handler has executed
\* some but not all of its statements.
C17_RenderSeesWholeCommands ==
    [][SampleStep => ~MidHandler]_vars

\* C18: events are handled oldest first and one at a time; while a block is
\* being rendered no handler statement runs, the engine state moves by
\* rendered samples only, and a handler statement leaves the block position
\* at the boundary.
C18_CommandsInOrderAtBlockBoundaries ==
    /\ [][(pc = "idle" /\ pc' # "idle") =>
            /\ midiq # << >>
            /\ midiq' = Tail(midiq)
            /\ pc' = LooperEntry(St, Head(midiq))]_vars
    /\ [][midiq' # midiq =>
            \/ pc = "idle" /\ midiq # << >> /\ midiq' = Tail(midiq)
            \/ \E val \in 0 .. 127 : midiq' = Append(midiq, val)]_vars
    /\ [][blockPos # 0 =>
            /\ pc' = pc
            /\ engine' = engine \/ (SampleStep /\ St' = RenderSample(St))]_vars
    /\ [][pc' # pc => (blockPos = 0 /\ blockPos' = 0)]_vars

\* A block is half rendered while a handler is part-way and events wait.
C18_Witness ==
    /\ blockPos = 1
    /\ MidHandler
    /\ Len(midiq) = MaxQueue
    /\ g_looperWrite > 0


(***************************************************************************)
(* Pitch bend.                                                             *)
(***************************************************************************)
\* The 14-bit values strictly within PitchBendDead of the centre.
DeadZoneValues == (PitchBendCenter - PitchBendDead + 1) .. (PitchBendCenter + PitchBendDead - 1)

\* C19: from every offset, a pitch bend whose 14-bit value v = (msb<<7)|lsb
\* has |v - 8192| < 256 sets the offset to exactly 0 and changes nothing
\* else; lsb = v % 128 and msb = v \div 128 are the only bytes with value v.
C19_DeadZoneSnapsToZero ==
    \A v \in DeadZoneValues :
        LET t == HandlePitchBend(St, MidiCh_SYNTH, v % 128, v \div 128)
        IN  /\ t.g_pitchBendSemi = 0
            /\ t = [St EXCEPT !.g_pitchBendSemi = 0]

\* The wheel is bent up a full semitone or more, and a byte pair at the edge
\* of the dead zone brings the offset back to 0.
C19_Witness ==
    /\ g_pitchBendSemi >= UnitsPerSemitone
    /\ HandlePitchBend(St, MidiCh_SYNTH, 127, 65).g_pitchBendSemi = 0
    /\ HandlePitchBend(St, MidiCh_SYNTH, 0, 66).g_pitchBendSemi # 0

\* C20: the pitch bend 16383 (lsb = 127, msb = 127) gives an offset of
\* exactly +2 semitones.
C20_FullBendIsTwoSemitones ==
    HandlePitchBend(St, MidiCh_SYNTH, 127, 127).g_pitchBendSemi
        = kPitchBendRange * UnitsPerSemitone

\* The offset of kPitchBendRange semitones, in the units of g_pitchBendSemi.
FullBend == kPitchBendRange * UnitsPerSemitone

\* 2 * (v - 8192) / 8192 semitones clamped to [-2, +2], in the units of
\* g_pitchBendSemi (the division is exact: UnitsPerSemitone * 2 = 8192).
BendOf(v) ==
    Max(-FullBend,
        Min(FullBend,
            (kPitchBendRange * (v - PitchBendCenter) * UnitsPerSemitone)
                \div PitchBendCenter))

\* C21: the stored offset always lies in [-2, +2] semitones; for every pair
\* of data bytes the handler leaves the offset in that range, outside the
\* dead zone the offset is 2 * (v - 8192) / 8192 clamped, where
\* v = (msb << 7) | lsb, and the value 0 gives exactly -2 semitones.
C21_BendRangeAndFormula ==
    /\ g_pitchBendSemi \in -FullBend .. FullBend
    /\ \A lsb \in BendLsbs, msb \in BendMsbs :
          LET v == msb * 128 + lsb
              t == HandlePitchBend(St, MidiCh_SYNTH, lsb, msb)
          IN  /\ t.g_pitchBendSemi \in -FullBend .. FullBend
              /\ v \notin DeadZoneValues => t.g_pitchBendSemi = BendOf(v)
    /\ HandlePitchBend(St, MidiCh_SYNTH, 0, 0).g_pitchBendSemi = -FullBend

\* The wheel is at its lowest value: the offset is -2 semitones, produced
\* by the data bytes (0, 0).
C21_Witness ==
    /\ g_pitchBendSemi = -FullBend
    /\ g_pitchBendSemi = BendOf(0)


(***************************************************************************)
(* Parameter controllers.                                                  *)
(***************************************************************************)
\* The data bytes of a controller message, and every byte the uint8_t
\* argument of HandleCC can hold.
DataBytes == 0 .. 127
ByteVals == 0 .. 255

\* The values the two delay knobs send: the ends of the range and values
\* in between.
DelayVals == {0, 1, 2, 32, 63, 64, 65, 100, 126, 127}

\* The delay time and delay feedback controllers, on either channel.
NextDelay ==
    \E ch \in Channels, cc \in {CC_DELAY_TIME, CC_DELAY_FEEDBACK}, val \in DelayVals :
        ControlChange(ch, cc, val)

SpecDelay == Init /\ [][NextDelay]_vars

\* f (in 1/Scale) is min(0.02 + 0.9 * value / 127, 0.95): both sides times
\* 1000 * Scale.
FeedbackIs(f, value) ==
    f * 1000 = Min(20 * Scale + 900 * value * (Scale \div 127), 950 * Scale)

\* C22: the stored delay feedback never exceeds 0.95 and the delay length
\* lies in [0.02 * sampleRate, 1.0 * sampleRate], below the delay line's
\* capacity; for every CC78 value the handler stores
\* min(0.02 + 0.9 * value / 127, 0.95), and for every CC77 value the delay
\* length it sets is in that range, value 0 giving 0.02 * sampleRate.
C22_DelayClamps ==
    /\ params[CC_DELAY_FEEDBACK] * 100 <= 95 * Scale
    /\ g_delaySamples * 100 >= 2 * g_samplerate
    /\ g_delaySamples <= g_samplerate
    /\ g_delaySamples < kDelayBuffer
    /\ \A value \in DataBytes :
          LET t == HandleCC(St, MidiCh_SYNTH, CC_DELAY_FEEDBACK, value)
              u == HandleCC(St, MidiCh_SYNTH, CC_DELAY_TIME, value)
          IN  /\ FeedbackIs(t.params[CC_DELAY_FEEDBACK], value)
              /\ t.params[CC_DELAY_FEEDBACK] * 100 <= 95 * Scale
              /\ u.g_delaySamples * 100 >= 2 * g_samplerate
              /\ u.g_delaySamples <= g_samplerate
              /\ u.g_delaySamples < kDelayBuffer
    /\ HandleCC(St, MidiCh_SYNTH, CC_DELAY_TIME, 0).g_delaySamples * 100
          = 2 * g_samplerate

\* CC78 = 127 and CC77 = 0 have been applied: feedback 0.92 and the 20 ms
\* delay are stored.
C22_Witness ==
    /\ FeedbackIs(params[CC_DELAY_FEEDBACK], 127)
    /\ params[CC_DELAY_TIME] = Milli(20)
    /\ g_delaySamples * 100 = 2 * g_samplerate


\* The controllers whose stored value is the normalised value itself.
UnitCCs ==
    { CC_SUSTAIN, CC_DELAY_MIX, CC_REVERB_MIX, CC_BASS_BOOST, CC_DRIVE,
      CC_MODWHEEL, CC_LOOPER_LEVEL }

\* The value HandleCC stores for controller cc and value byte val.
Stored(cc, val) == HandleCC(St, MidiCh_SYNTH, cc, val).params[cc]

\* C23: for every value byte HandleCC can be passed, values above 127
\* included, the stored resonance is in [0.1, 1.0], the stored sustain
\* level, delay mix, reverb mix, bass boost, drive, mod wheel and looper
\* level are in [0, 1], and the stored delay time is in [0.02, 1.0] seconds.
C23_OutOfRangeInputClamped ==
    \A val \in ByteVals :
        /\ Stored(CC_RESONANCE, val) \in Milli(100) .. Milli(1000)
        /\ \A cc \in UnitCCs : Stored(cc, val) \in 0 .. Scale
        /\ Stored(CC_DELAY_TIME, val) \in Milli(20) .. Milli(1000)


(***************************************************************************)
(* Command routing.                                                        *)
(***************************************************************************)
\* The note of a session that plays both instruments: 36 is a key of the
\* keyboard in poly-synth mode and the kick in drum-kit mode.
RoutingNotes == {36}

\* A controller number the engine has no case for.
CC_UNMAPPED == 3

\* Every controller number HandleCC has a case for.
MappedCCs == ParamCCs \cup {CC_SUSTAIN_PEDAL, CC_INSTRUMENT_MODE, CC_LOOPER_CONTROL}

OtherChannels == (0 .. 15) \ {MidiCh_SYNTH}

\* Notes in both instrument modes on either channel, the mode switch, an
\* unmapped controller, the bend wheel on another channel, and render.
NextRouting ==
    \/ \E ch \in Channels, n \in RoutingNotes, v \in Velocities : NoteOn(ch, n, v)
    \/ \E ch \in Channels, n \in RoutingNotes : NoteOff(ch, n)
    \/ \E ch \in Channels, val \in PedalVals :
          ControlChange(ch, CC_INSTRUMENT_MODE, val)
    \/ \E ch \in Channels, val \in PedalVals : ControlChange(ch, CC_UNMAPPED, val)
    \/ \E msb \in {0, 127} : PitchBend(0, 0, msb)
    \/ Render

SpecRouting == Init /\ [][NextRouting]_vars

\* C24: a NoteOn, NoteOff, ControlChange or PitchBend on a channel other
\* than MidiCh::SYNTH, and a ControlChange on MidiCh::SYNTH whose controller
\* number has no case in HandleCC, return the engine state they were given:
\* every variable of the engine keeps its value.
C24_IgnoredCommandsChangeNothing ==
    /\ \A ch \in OtherChannels :
          /\ \A n \in RoutingNotes, v \in AnyVelocities :
                /\ HandleNoteOn(St, ch, n, v) = St
                /\ HandleNoteOff(St, ch, n, v) = St
          /\ \A cc \in AnyCCs, val \in AnyCCVals : HandleCC(St, ch, cc, val) = St
          /\ \A lsb, msb \in AnyBendBytes : HandlePitchBend(St, ch, lsb, msb) = St
    /\ \A cc \in (0 .. 127) \ MappedCCs, val \in AnyCCVals :
          HandleCC(St, MidiCh_SYNTH, cc, val) = St

\* A key is held, a drum slot is sounding, and the commands the engine
\* ignores would all change this state were they on the synthesis channel
\* with a mapped controller.
C24_Witness ==
    /\ \E i \in VoiceIdx : voices[i].keyDown
    /\ \E i \in DrumIdx : drumVoices[i].active
    /\ HandleNoteOn(St, MidiCh_SYNTH, 36, 100) # St
    /\ HandleCC(St, MidiCh_SYNTH, CC_SUSTAIN_PEDAL, 127) # St
    /\ HandlePitchBend(St, MidiCh_SYNTH, 0, 0) # St


(***************************************************************************)
(* The drum kit under the firmware's two contexts: the main loop runs      *)
(* TriggerDrum statement by statement, the audio interrupt renders blocks. *)
(***************************************************************************)
\* The pads of a session: the kick, the snare and the closed hat.
DrumNotes == {36, 38, 42}

\* The velocity of a pad hit.
HitVelocity == 100

\* ProcessMidi pops a NoteOn with velocity > 0 in drum-kit mode:
\* HandleNoteOn calls TriggerDrum(note, vel).
DrumNoteOn(note) ==
    /\ blockPos = 0 /\ pc = "idle"
    /\ g_instrMode = MODE_DRUM_KIT
    /\ pc' = "D1"
    /\ local' = [note |-> note, velocity |-> HitVelocity, v |-> 0]
    /\ irqRan' = FALSE
    /\ UNCHANGED << engine, midiq, blockPos, ui >>

\* The main loop executes the next statement of TriggerDrum.
DrumStep ==
    /\ blockPos = 0 /\ pc \in DrumLabels
    /\ \E r \in {TriggerDrumStmt(St, pc, local)} :
          Becomes(r.st) /\ pc' = r.pc /\ local' = r.local
    /\ irqRan' = FALSE
    /\ UNCHANGED << midiq, blockPos, ui >>

\* The instrument-mode controller, a single store, between two events.
ModeChange(val) ==
    /\ blockPos = 0 /\ pc = "idle"
    /\ ControlChange(MidiCh_SYNTH, CC_INSTRUMENT_MODE, val)

NextDrumKit ==
    \/ \E val \in PedalVals : ModeChange(val)
    \/ \E n \in DrumNotes : DrumNoteOn(n)
    \/ DrumStep
    \/ AudioCallbackSample

SpecDrumKit == Init /\ [][NextDrumKit]_vars


\* C25: a drum NoteOn is never dropped.  TriggerDrum picks the lowest-index
\* inactive slot, slot 0 when there is none, and when the handler returns
\* that slot is active with the drum type of the note table.
C25_DrumNoteOnNeverDropped ==
    [][ /\ (pc = "D1" /\ pc' = "D2") =>
              \/ /\ ~drumVoices[local'.v].active
                 /\ \A j \in DrumIdx : j < local'.v => drumVoices[j].active
              \/ /\ local'.v = 0
                 /\ \A j \in DrumIdx : drumVoices[j].active
        /\ (pc = "D8" /\ pc' = "idle") =>
              /\ drumVoices'[local.v].active
              /\ drumVoices'[local.v].type = DrumTypeForNote(local.note)
      ]_vars


\* C26: a NoteOn with velocity > 0 in poly-synth mode leaves every drum slot
\* as it is; in drum-kit mode it leaves every melodic voice and voiceRotate
\* as they are; the INSTRUMENT_MODE controller sets drum kit exactly when
\* its value is >= 64 and changes nothing but g_instrMode.
C26_NotesRoutedByMode ==
    /\ \A n \in DataBytes, v \in {1, 127} :
          LET t == HandleNoteOn(St, MidiCh_SYNTH, n, v)
          IN  /\ g_instrMode = MODE_POLY_SYNTH => t.drumVoices = drumVoices
              /\ g_instrMode = MODE_DRUM_KIT =>
                    t.voices = voices /\ t.voiceRotate = voiceRotate
    /\ \A val \in DataBytes :
          LET t == HandleCC(St, MidiCh_SYNTH, CC_INSTRUMENT_MODE, val)
          IN  /\ (t.g_instrMode = MODE_DRUM_KIT) <=> (val >= 64)
              /\ t.g_instrMode \in {MODE_POLY_SYNTH, MODE_DRUM_KIT}
              /\ t = [St EXCEPT !.g_instrMode = t.g_instrMode]

\* Drum-kit mode with a key of the keyboard still down and a drum sounding:
\* the next pad hit changes a drum slot and no voice, and the controller
\* value 63 switches back to poly-synth.
C26_Witness ==
    /\ g_instrMode = MODE_DRUM_KIT
    /\ \E i \in VoiceIdx : voices[i].keyDown /\ voices[i].active
    /\ \E i \in DrumIdx : drumVoices[i].active
    /\ HandleNoteOn(St, MidiCh_SYNTH, 36, 127).drumVoices # drumVoices
    /\ HandleCC(St, MidiCh_SYNTH, CC_INSTRUMENT_MODE, 63).g_instrMode = MODE_POLY_SYNTH


(***************************************************************************)
(* Drum decay.                                                             *)
(***************************************************************************)
\* A pad hit in drum-kit mode.
DrumHit(note) ==
    /\ g_instrMode = MODE_DRUM_KIT
    /\ NoteOn(MidiCh_SYNTH, note, HitVelocity)

\* Some pad is hit.
DrumTrigger == \E n \in DrumNotes : DrumHit(n)

\* Pad hits, the mode switch and render; the audio clock keeps calling
\* AudioCallback.
NextDrums ==
    \/ DrumTrigger
    \/ \E val \in PedalVals : ControlChange(MidiCh_SYNTH, CC_INSTRUMENT_MODE, val)
    \/ Render

SpecDrumsFair == Init /\ [][NextDrums]_vars /\ WF_vars(Render)

\* The slot's tone or noise envelope is above the threshold of Active().
Audible(v) == SimpleEnvActive(v.env) \/ SimpleEnvActive(v.noiseEnv)

\* C27: a render step leaves an active drum slot active exactly when one of
\* its two envelopes is still above the threshold, and never activates a
\* slot; and if pad hits stop, every active drum slot eventually becomes
\* inactive, whatever the instrument mode.
C27_DrumSlotDecays ==
    /\ [][ Render =>
              \A i \in DrumIdx :
                  /\ drumVoices[i].active =>
                        (drumVoices'[i].active <=> Audible(drumVoices'[i]))
                  /\ ~drumVoices[i].active => ~drumVoices'[i].active ]_vars
    /\ \/ []<><<DrumTrigger>>_vars
       \/ \A i \in DrumIdx :
              \A mode \in {MODE_POLY_SYNTH, MODE_DRUM_KIT} :
                  (drumVoices[i].active /\ g_instrMode = mode)
                      ~> ~drumVoices[i].active

\* Every slot is sounding, the kick's tone outlasting its noise, and the
\* instrument has been switched back to poly-synth.
C27_Witness ==
    /\ g_instrMode = MODE_POLY_SYNTH
    /\ \A i \in DrumIdx : drumVoices[i].active
    /\ \E i \in DrumIdx :
          SimpleEnvActive(drumVoices[i].env) /\ ~SimpleEnvActive(drumVoices[i].noiseEnv)


(***************************************************************************)
(* The control surface's boot button (A1).  One action is one trip round   *)
(* loop(), from drawUI to drawUI: the flags are cleared, the loop waits,   *)
(* reads millis() and the button, and runs the short/long press logic; the *)
(* state between two actions is the one drawUI displays.                   *)
(***************************************************************************)
\* nowMs - bootPressStartMs in unsigned arithmetic.
ElapsedMs(u) == (u.nowMs - u.bootPressStartMs + MillisWrap) % MillisWrap

\* Variant: a long press is one strictly longer than BOOT_LONG_MS.
BootButton_StrictlyLonger(u, bootNowLow) ==
    LET p1 == IF bootNowLow /\ ~u.bootPressed
              THEN [u EXCEPT !.bootPressed = TRUE, !.bootLongFired = FALSE,
                             !.bootPressStartMs = u.nowMs]
              ELSE u
        p2 == IF /\ p1.bootPressed /\ bootNowLow /\ ~p1.bootLongFired
                 /\ ElapsedMs(p1) > BOOT_LONG_MS
              THEN [p1 EXCEPT !.dfuFlash = TRUE, !.bootLongFired = TRUE]
              ELSE p1
    IN  IF ~bootNowLow /\ p2.bootPressed
        THEN [p2 EXCEPT !.rstFlash = ~p2.bootLongFired, !.bootPressed = FALSE]
        ELSE p2

\* The A1 section of loop(): u.nowMs is this iteration's millis(), dfuFlash
\* tells that DaisyEnterDFU was called and rstFlash that pulseDaisyReset was.
BootButton(u, bootNowLow) ==
    LET p1 == IF bootNowLow /\ ~u.bootPressed
              THEN [u EXCEPT !.bootPressed = TRUE, !.bootLongFired = FALSE,
                             !.bootPressStartMs = u.nowMs]
              ELSE u
        p2 == IF /\ p1.bootPressed /\ bootNowLow /\ ~p1.bootLongFired
                 /\ ElapsedMs(p1) >= BOOT_LONG_MS
              THEN [p1 EXCEPT !.dfuFlash = TRUE, !.bootLongFired = TRUE]
              ELSE p1
    IN  IF ~bootNowLow /\ p2.bootPressed
        THEN [p2 EXCEPT !.rstFlash = ~p2.bootLongFired, !.bootPressed = FALSE]
        ELSE p2

\* Milliseconds between two reads of millis(): a plain trip round the loop
\* and one that called DaisyEnterDFU (delays of 300 ms).
LoopMs == {32, 320}

\* loop(): clear the flags, delay, read millis() and the button.
UiLoop(bootNowLow, dt) ==
    /\ ui' = BootButton([ui EXCEPT !.dfuFlash = FALSE, !.rstFlash = FALSE,
                                    !.nowMs = (ui.nowMs + dt) % MillisWrap],
                         bootNowLow)
    /\ UNCHANGED << engine, midiq, pc, blockPos, irqRan, local >>

NextBoot == \E bootNowLow \in BOOLEAN, dt \in LoopMs : UiLoop(bootNowLow, dt)

SpecBoot == Init /\ [][NextBoot]_vars

NextKeys ==
    \/ \E n \in Notes, v \in Velocities : NoteOn(MidiCh_SYNTH, n, v)
    \/ \E n \in Notes : NoteOff(MidiCh_SYNTH, n)
    \/ \E val \in PedalVals : ControlChange(MidiCh_SYNTH, CC_SUSTAIN_PEDAL, val)
    \/ Render

SpecKeys == Init /\ [][NextKeys]_vars

\* Envelope levels a voice can be at when render reaches it: the levels of
\* the model and one above, a release that needs a further step.
EnvLevels == 0 .. (EnvMax + 1)

\* C29: for every voice, whatever the level of its envelope, a render step
\* clears active only if the voice has gate = false and keyDown = false and
\* its envelope output is below the silence threshold; it never changes
\* note, keyDown or gate; and a voice with active, keyDown and gate all
\* false is left as it is.
C29_RenderDeactivatesOnlySilentReleased ==
    \A i \in VoiceIdx :
        /\ RenderSample(St).voices[i] = RenderVoice(voices[i])
        /\ \A e \in EnvLevels :
              LET v == [voices[i] EXCEPT !.env = e]
                  t == RenderVoice(v)
              IN  /\ (v.active /\ ~t.active) =>
                        ~v.gate /\ ~v.keyDown /\ EnvProcess(v.env, v.gate) < 1
                  /\ t.note = v.note /\ t.keyDown = v.keyDown /\ t.gate = v.gate
                  /\ (~v.active /\ ~v.keyDown /\ ~v.gate) => t = v

\* One voice is released and silent, so the next render step marks it
\* inactive; another is kept sounding by the pedal alone and stays active.
C29_Witness ==
    /\ \E i \in VoiceIdx :
          /\ voices[i].active /\ ~voices[i].gate /\ ~voices[i].keyDown
          /\ ~RenderSample(St).voices[i].active
    /\ \E i \in VoiceIdx :
          /\ voices[i].active /\ voices[i].gate /\ ~voices[i].keyDown
          /\ RenderSample(St).voices[i].active


\* The notes of the voices that are active or have their key down.
NotesInUse == { voices[i].note : i \in Sounding }

\* C30: no two voices that are active or keyDown hold the same note; and a
\* NoteOn that brings the distinct notes in use to at most kNumVoices
\* steals no voice (every sounding voice keeps its note) and leaves
\* voiceRotate as it is, as do NoteOff, the pedal and render: the cursor
\* moves only when kNumVoices + 1 distinct notes are in use.
C30_SoundingNotesDistinct ==
    /\ \A i, j \in Sounding : i # j => voices[i].note # voices[j].note
    /\ \A n \in Notes, v \in HitVelocities :
          LET t == HandleNoteOn(St, MidiCh_SYNTH, n, v)
          IN  Cardinality(NotesInUse \cup {n}) <= kNumVoices =>
                /\ t.voiceRotate = voiceRotate
                /\ \A i \in Sounding :
                      /\ t.voices[i].note = voices[i].note
                      /\ t.voices[i].active \/ t.voices[i].keyDown
    /\ \A n \in Notes :
          /\ HandleNoteOn(St, MidiCh_SYNTH, n, 0).voiceRotate = voiceRotate
          /\ HandleNoteOff(St, MidiCh_SYNTH, n, 0).voiceRotate = voiceRotate
    /\ \A val \in PedalVals :
          HandleCC(St, MidiCh_SYNTH, CC_SUSTAIN_PEDAL, val).voiceRotate = voiceRotate
    /\ RenderSample(St).voiceRotate = voiceRotate

\* The pool is full, kNumVoices distinct notes sound and no voice has been
\* stolen yet; one of the voices is only releasing, and a NoteOn of its note
\* takes that voice again, while a NoteOn of a further note would steal.
C30_Witness ==
    /\ Cardinality(Sounding) = kNumVoices
    /\ Cardinality(NotesInUse) = kNumVoices
    /\ voiceRotate = 0
    /\ \E i \in VoiceIdx :
          /\ voices[i].active /\ ~voices[i].keyDown
          /\ HandleNoteOn(St, MidiCh_SYNTH, voices[i].note, 100).voices[i].keyDown
    /\ \E n \in Notes : IsSteal(n)

(***************************************************************************)
(* The keyboard under the firmware's two contexts: the main loop runs the  *)
(* melodic branch of HandleNoteOn statement by statement, the audio        *)
(* interrupt renders blocks.                                               *)
(***************************************************************************)
NoteOnLabels == {"N1", "N2", "N3", "N4", "N5", "N6", "N7", "N8", "N9", "N10", "N11", "N12"}

\* HandleNoteOn from AllocateVoiceForNote on (lines 516-524), with
\* AllocateVoiceForNote and StealVoice inlined; l holds the arguments note
\* and velocity and the local v.
NoteOnStmt(s, p, l) ==
    CASE p = "N1" -> LET e == FindExistingVoiceForNote(s, l.note)
                     IN  [st |-> s, local |-> [l EXCEPT !.v = e],
                          pc |-> IF e # -1 THEN "N8" ELSE "N2"]
      [] p = "N2" -> LET f == FindIdleVoice(s)
                     IN  [st |-> s, local |-> [l EXCEPT !.v = f],
                          pc |-> IF f # -1 THEN "N8" ELSE "N3"]
      [] p = "N3" -> [st |-> [s EXCEPT !.voiceRotate = (s.voiceRotate + 1) % kNumVoices],
                      local |-> [l EXCEPT !.v = s.voiceRotate], pc |-> "N4"]
      [] p = "N4" -> [st |-> [s EXCEPT !.voices[l.v].active = FALSE],
                      local |-> l, pc |-> "N5"]
      [] p = "N5" -> [st |-> [s EXCEPT !.voices[l.v].gate = FALSE],
                      local |-> l, pc |-> "N6"]
      [] p = "N6" -> [st |-> [s EXCEPT !.voices[l.v].keyDown = FALSE],
                      local |-> l, pc |-> "N7"]
      [] p = "N7" -> [st |-> [s EXCEPT !.voices[l.v].vel = 0],
                      local |-> l, pc |-> "N8"]
      [] p = "N8" -> [st |-> [s EXCEPT !.voices[l.v].note = l.note],
                      local |-> l, pc |-> "N9"]
      [] p = "N9" -> [st |-> [s EXCEPT !.voices[l.v].vel = l.velocity],
                      local |-> l, pc |-> "N10"]
      [] p = "N10" -> [st |-> [s EXCEPT !.voices[l.v].keyDown = TRUE],
                       local |-> l, pc |-> "N11"]
      [] p = "N11" -> [st |-> [s EXCEPT !.voices[l.v].gate = TRUE],
                       local |-> l, pc |-> "N12"]
      [] p = "N12" -> [st |-> [s EXCEPT !.voices[l.v].active = TRUE],
                       local |-> NoLocals, pc |-> "idle"]
      [] OTHER -> [st |-> s, local |-> NoLocals, pc |-> "idle"]

\* ProcessMidi pops a NoteOn with velocity > 0 in poly-synth mode.
KeyNoteOn(note) ==
    /\ blockPos = 0 /\ pc = "idle"
    /\ g_instrMode = MODE_POLY_SYNTH
    /\ pc' = "N1"
    /\ local' = [note |-> note, velocity |-> HitVelocity, v |-> 0]
    /\ irqRan' = FALSE
    /\ UNCHANGED << engine, midiq, blockPos, ui >>

\* The main loop executes the next statement of HandleNoteOn.
KeyStep ==
    /\ blockPos = 0 /\ pc \in NoteOnLabels
    /\ \E r \in {NoteOnStmt(St, pc, local)} :
          Becomes(r.st) /\ pc' = r.pc /\ local' = r.local
    /\ irqRan' = FALSE
    /\ UNCHANGED << midiq, blockPos, ui >>

\* A NoteOff or a pedal command whose handler runs between two blocks.
KeyNoteOff(note) ==
    /\ blockPos = 0 /\ pc = "idle"
    /\ NoteOff(MidiCh_SYNTH, note)

PedalChange(val) ==
    /\ blockPos = 0 /\ pc = "idle"
    /\ ControlChange(MidiCh_SYNTH, CC_SUSTAIN_PEDAL, val)

NextPoly ==
    \/ \E n \in Notes : KeyNoteOn(n)
    \/ KeyStep
    \/ \E n \in Notes : KeyNoteOff(n)
    \/ \E val \in PedalVals : PedalChange(val)
    \/ AudioCallbackSample

SpecPoly == Init /\ [][NextPoly]_vars

\* keyDown implies gate and gate implies active, for every voice of t.
GateOrder(vs) == \A i \in VoiceIdx : (vs[i].keyDown => vs[i].gate) /\ (vs[i].gate => vs[i].active)

\* C31: after every completed command and after every render step each
\* voice has keyDown => gate and gate => active.
C31_KeyDownGateActive ==
    [][ (SampleStep \/ (pc # "idle" /\ pc' = "idle") \/ (pc = "idle" /\ pc' = "idle"))
            => GateOrder(voices') ]_vars

\* gate equals keyDown on every voice of vs.
GateIsKey(vs) == \A i \in VoiceIdx : vs[i].gate = vs[i].keyDown

\* The commands that write a voice's keyDown or gate, or the pedal flag,
\* and the mode switch that decides whether a NoteOff is looked at.
AfterCommand ==
    { HandleNoteOn(St, MidiCh_SYNTH, n, v) : n \in Notes, v \in Velocities }
        \cup { HandleNoteOff(St, MidiCh_SYNTH, n, 0) : n \in Notes }
        \cup { HandleCC(St, MidiCh_SYNTH, CC_SUSTAIN_PEDAL, val) : val \in PedalBytes }
        \cup { HandleCC(St, MidiCh_SYNTH, CC_INSTRUMENT_MODE, val) : val \in PedalBytes }

\* C32: whenever the sustain pedal is off, after every completed command
\* every voice has gate equal to keyDown.  Between two commands this is the
\* state the last command left (render writes neither field); from such a
\* state every command, in either instrument mode, leaves it so again.
C32_PedalOffGateIsKeyDown ==
    pc = "idle" =>
        /\ ~g_sustainOn => GateIsKey(voices)
        /\ \A t \in AfterCommand :
              ~t.g_sustainOn => GateIsKey(t.voices)
        /\ \A t \in AfterCommand :
              \A u \in { HandleNoteOff(t, MidiCh_SYNTH, n, 0) : n \in Notes }
                    \cup { HandleNoteOn(t, MidiCh_SYNTH, n, 0) : n \in Notes }
                    \cup { HandleCC(t, MidiCh_SYNTH, CC_SUSTAIN_PEDAL, 0) } :
                 ~u.g_sustainOn => GateIsKey(u.voices)

\* The pedal is off after it sustained a voice: one voice is held, another
\* one, its key up, has its gate off and still sounds.
C32_Witness ==
    /\ pc = "idle" /\ ~g_sustainOn
    /\ \E i, j \in VoiceIdx :
          /\ Held(voices[i])
          /\ Releasing(voices[j]) /\ voices[j].env > 0
    /\ \E t \in AfterCommand : t.g_sustainOn

\* C33: a toggle-record command that found the looper not recording leaves
\* it, when StartLooperRecord returns, recording with playback stopped, the
\* write cursor at 0 and the length 0, whatever blocks the audio interrupt
\* rendered between the routine's stores.
C33_RecordCommandUnderPreemption ==
    [][(pc \in RecordLabels /\ pc' = "idle") =>
          /\ g_looperRecording' /\ ~g_looperPlaying'
          /\ g_looperWrite' = 0 /\ g_looperLength' = 0]_vars

(***************************************************************************)
(* The serial link.  A frame is the three bytes midiSend3 writes to        *)
(* Serial1: status, data1, data2.  ProcessMidi takes a frame's kind from   *)
(* its status byte and hands the handler the two data bytes; the handlers  *)
(* here receive it as a message of the synthesis channel.                  *)
(***************************************************************************)
STATUS_NOTE_ON == 144
STATUS_NOTE_OFF == 128
STATUS_CC == 176
STATUS_PITCH_BEND == 224

sendNoteOn(note, vel) == << STATUS_NOTE_ON, note, vel >>
sendNoteOff(note, vel) == << STATUS_NOTE_OFF, note, vel >>
sendCC(cc, val) == << STATUS_CC, cc, val >>

\* updateNoteMap: noteForIndex from the play mode and the scale type.
updateNoteMap(u) ==
    [u EXCEPT !.noteForIndex =
        [i \in KeyIdx |->
            IF u.g_playMode = MODE_DRUM THEN drumNoteMap[i + 1]
            ELSE IF u.g_playMode = MODE_SCALE
                 THEN LET size == scaleSizes[u.g_scaleType + 1]
                      IN  ROOT_NOTE + scaleSteps[u.g_scaleType + 1][(i % size) + 1]
                            + (i \div size) * 12
                 ELSE ROOT_NOTE + i]]

\* The switch of ProcessMidi on the message type.
ApplyFrame(s, f) ==
    IF f[1] = STATUS_NOTE_ON THEN HandleNoteOn(s, MidiCh_SYNTH, f[2], f[3])
    ELSE IF f[1] = STATUS_NOTE_OFF THEN HandleNoteOff(s, MidiCh_SYNTH, f[2], f[3])
    ELSE IF f[1] = STATUS_CC THEN HandleCC(s, MidiCh_SYNTH, f[2], f[3])
    ELSE IF f[1] = STATUS_PITCH_BEND THEN HandlePitchBend(s, MidiCh_SYNTH, f[2], f[3])
    ELSE s

\* ProcessMidi pops the oldest frame and its handler applies it.
FrameCommand ==
    /\ midiq # << >>
    /\ Becomes(ApplyFrame(St, Head(midiq)))
    /\ midiq' = Tail(midiq)
    /\ UNCHANGED << pc, blockPos, irqRan, local, ui >>

(***************************************************************************)
(* The control surface's looper buttons and the engine's looper.  The      *)
(* sketch keeps its own picture of the looper (looperRecordingUI,          *)
(* looperPlayingUI, looperHasLoopUI) and sends CC 91; the engine pops the  *)
(* commands in ProcessMidi while AudioCallback records and plays.          *)
(***************************************************************************)
LOOP_CLEAR_MS == 700

\* The SELECT section of loop(): the sketch's globals and the CC 91
\* frames sent.
SelectButton(r, nowSel) ==
    LET u == r.ui
    IN  IF nowSel /\ ~u.btnPrevSEL
        THEN IF ~u.looperRecordingUI
             THEN [ui |-> [u EXCEPT !.looperRecordingUI = TRUE,
                                    !.looperPlayingUI = FALSE,
                                    !.looperHasLoopUI = FALSE],
                   sent |-> Append(r.sent, sendCC(CC_LOOPER_CONTROL, 40))]
             ELSE [ui |-> [u EXCEPT !.looperRecordingUI = FALSE,
                                    !.looperPlayingUI = TRUE,
                                    !.looperHasLoopUI = TRUE],
                   sent |-> Append(r.sent, sendCC(CC_LOOPER_CONTROL, 40))]
        ELSE r

\* uint32_t held = nowMs - startPressStartMs
HeldMs(u) == (u.nowMs - u.startPressStartMs + MillisWrap) % MillisWrap

\* The START section of loop().
StartButton(r, nowStart) ==
    LET u0 == r.ui
        u  == IF nowStart /\ ~u0.btnPrevSTART
              THEN [u0 EXCEPT !.startPressing = TRUE,
                              !.startPressStartMs = u0.nowMs]
              ELSE u0
    IN  IF ~nowStart /\ u.btnPrevSTART
        THEN IF u.startPressing
             THEN IF HeldMs(u) >= LOOP_CLEAR_MS
                  THEN [ui |-> [u EXCEPT !.looperRecordingUI = FALSE,
                                         !.looperPlayingUI = FALSE,
                                         !.looperHasLoopUI = FALSE,
                                         !.startPressing = FALSE],
                        sent |-> Append(r.sent, sendCC(CC_LOOPER_CONTROL, 0))]
                  ELSE IF ~u.looperRecordingUI /\ u.looperHasLoopUI
                       THEN [ui |-> [u EXCEPT !.looperPlayingUI = ~u.looperPlayingUI,
                                              !.startPressing = FALSE],
                             sent |-> Append(r.sent, sendCC(CC_LOOPER_CONTROL, 80))]
                       ELSE [ui |-> [u EXCEPT !.startPressing = FALSE], sent |-> r.sent]
             ELSE [ui |-> [u EXCEPT !.startPressing = FALSE], sent |-> r.sent]
        ELSE [ui |-> u, sent |-> r.sent]

\* btnPrevSEL = nowSel; btnPrevSTART = nowStart
LooperButtons(u, nowSel, nowStart) ==
    LET r == StartButton(SelectButton([ui |-> u, sent |-> << >>], nowSel), nowStart)
    IN  [ui |-> [r.ui EXCEPT !.btnPrevSEL = nowSel, !.btnPrevSTART = nowStart],
         sent |-> r.sent]

\* Milliseconds between two reads of the buttons that differ.
ButtonMs == {512}

\* loop(): read millis() and the gamepad buttons, run the looper sections;
\* the messages written to Serial1 reach the engine's receive queue.
UiLooperLoop(nowSel, nowStart, dt) ==
    /\ \E r \in {LooperButtons([ui EXCEPT !.nowMs = (ui.nowMs + dt) % MillisWrap],
                                nowSel, nowStart)} :
          /\ Len(midiq) + Len(r.sent) <= MaxQueue
          /\ ui' = r.ui
          /\ midiq' = midiq \o r.sent
    /\ UNCHANGED << engine, pc, blockPos, irqRan, local >>

NextMirror ==
    \/ \E nowSel, nowStart \in BOOLEAN, dt \in ButtonMs : UiLooperLoop(nowSel, nowStart, dt)
    \/ FrameCommand
    \/ Render

SpecMirror == Init /\ [][NextMirror]_vars

\* C34: once every looper command sent has been applied the sketch's looperRecordingUI, looperPlayingUI and
\* looperHasLoopUI are the engine's recording, playing and length > 0.
C34_LooperMirrorAgrees ==
    midiq = << >> =>
        /\ ui.looperRecordingUI = g_looperRecording
        /\ ui.looperPlayingUI = g_looperPlaying
        /\ ui.looperHasLoopUI = (g_looperLength > 0)

(***************************************************************************)
(* Engine resets.  pulseDaisyReset pulls the Daisy's NRST line: the engine *)
(* restarts, its globals take their initialisers again and main() runs     *)
(* InitSynth.  setup() ends with such a pulse, after it has sent the       *)
(* encoder values and the instrument mode; Init is the state it leaves.    *)
(***************************************************************************)
\* The engine after a restart.
InitSt ==
    [ voices |-> [i \in VoiceIdx |-> InitVoice], voiceRotate |-> 0,
      g_sustainOn |-> FALSE, g_instrMode |-> MODE_POLY_SYNTH,
      g_pitchBendSemi |-> 0, params |-> InitParams,
      g_delaySamples |->
          UpdateDelayParams([params |-> InitParams, g_delaySamples |-> 0]).g_delaySamples,
      drumVoices |-> [i \in DrumIdx |-> InitDrumVoice],
      g_looperRecording |-> FALSE, g_looperPlaying |-> FALSE,
      g_looperWrite |-> 0, g_looperLength |-> 0, g_looperPlay |-> 0 ]

\* How far from its initial value an encoder is turned in a session.
MaxTurn == 1

\* The encoders turned in a session.
TurnCCs == {CC_RESONANCE, CC_DELAY_TIME}

\* bumpEncoderValue on the encoder whose active slot drives cc.
bumpEncoderValue(r, cc, delta) ==
    LET v == Min(Max(r.ui.encValue[cc] + delta, 0), 127)
    IN  IF v # r.ui.encValue[cc]
        THEN [ui |-> [r.ui EXCEPT !.encValue[cc] = v],
              sent |-> Append(r.sent, sendCC(cc, v))]
        ELSE r

\* Button A of loop(): cycle the play mode, updateNoteMap, tell the engine.
PlayModeButton(r, nowA) ==
    LET u == r.ui
        mode == (u.g_playMode + 1) % NUM_PLAY_MODES
    IN  IF nowA /\ ~u.btnPrevA
        THEN [ui |-> updateNoteMap([u EXCEPT !.g_playMode = mode, !.btnPrevA = nowA]),
              sent |-> Append(r.sent,
                  sendCC(CC_INSTRUMENT_MODE, IF mode = MODE_DRUM THEN 127 ELSE 0))]
        ELSE [ui |-> [u EXCEPT !.btnPrevA = nowA], sent |-> r.sent]

\* The sketch writes the frames to Serial1; at most cap are in flight.
UiSendsUpTo(r, cap) ==
    /\ Len(midiq) + Len(r.sent) <= cap
    /\ ui' = r.ui
    /\ midiq' = midiq \o r.sent
    /\ UNCHANGED << engine, pc, blockPos, irqRan, local >>

UiSends(r) == UiSendsUpTo(r, MaxQueue)

\* loop() with button A read.
UiModeLoop(nowA) ==
    /\ nowA \in BOOLEAN
    /\ UiSends(PlayModeButton([ui |-> ui, sent |-> << >>], nowA))

\* loop() with an encoder turned one detent.
UiEncoderLoop(cc, step) ==
    /\ ui.encValue[cc] + step \in (EncoderDef[cc] - MaxTurn) .. (EncoderDef[cc] + MaxTurn)
    /\ UiSends(bumpEncoderValue([ui |-> ui, sent |-> << >>], cc, step))

\* loop() with A1 read, for presses shorter than BOOT_LONG_MS: on release
\* pulseDaisyReset restarts the engine, and what was on the wire is lost.
UiResetLoop(bootNowLow, dt) ==
    /\ \E u \in {BootButton([ui EXCEPT !.dfuFlash = FALSE, !.rstFlash = FALSE,
                                       !.nowMs = (ui.nowMs + dt) % MillisWrap],
                            bootNowLow)} :
          /\ ~u.dfuFlash
          /\ ui' = u
          /\ IF u.rstFlash
             THEN Becomes(InitSt) /\ midiq' = << >>
             ELSE UNCHANGED << engine, midiq >>
    /\ UNCHANGED << pc, blockPos, irqRan, local >>

NextReset ==
    \/ \E nowA \in BOOLEAN : UiModeLoop(nowA)
    \/ \E cc \in TurnCCs, step \in {-1, 1} : UiEncoderLoop(cc, step)
    \/ \E bootNowLow \in BOOLEAN, dt \in ButtonMs : UiResetLoop(bootNowLow, dt)
    \/ FrameCommand

SpecReset == Init /\ [][NextReset]_vars

\* The engine's instrument mode and parameters are those of the sketch's
\* play mode and encoder values.
Corresponds(mode, p, u) ==
    /\ (mode = MODE_DRUM_KIT) <=> (u.g_playMode = MODE_DRUM)
    /\ \A cc \in DOMAIN u.encValue : p[cc] = ParamValue(cc, CCNorm(u.encValue[cc]))

\* C35: after the reset pulse that ends setup() and after every A1 short
\* press, the engine's instrument mode and controller-driven parameters
\* correspond to the play mode and the encoder values the sketch holds.
C35_ResetKeepsCorrespondence ==
    /\ Corresponds(g_instrMode, params, ui)
    /\ [][ui'.rstFlash => Corresponds(g_instrMode', params', ui')]_vars

(***************************************************************************)
(* The control surface's keys.                                             *)
(***************************************************************************)
\* The notes playKey sends and stores for key idx.
KeyNotes(u, idx) ==
    LET root == u.noteForIndex[idx]
    IN  IF u.g_playMode = MODE_CHORD
        THEN [i \in 1 .. Len(chordIntervals[u.g_chordType + 1]) |->
                (root + chordIntervals[u.g_chordType + 1][i]) % 256]
        ELSE << root >>

\* Variant: the key's notes are not stored; releaseKey works them out again.
releaseKey_Recomputed(r, idx) ==
    [ui |-> [r.ui EXCEPT !.keyState[idx] = [pressed |-> FALSE, notes |-> << >>]],
     sent |-> r.sent \o [i \in 1 .. Len(KeyNotes(r.ui, idx)) |->
                            sendNoteOff(KeyNotes(r.ui, idx)[i], 64)]]

\* playKey: ks.notes holds the first ks.count entries of the array.
playKey(r, idx, velocity) ==
    LET ns == KeyNotes(r.ui, idx)
    IN  [ui |-> [r.ui EXCEPT !.keyState[idx] = [pressed |-> TRUE, notes |-> ns]],
         sent |-> r.sent \o [i \in 1 .. Len(ns) |-> sendNoteOn(ns[i], velocity)]]

releaseKey(r, idx) ==
    LET ns == r.ui.keyState[idx].notes
    IN  [ui |-> [r.ui EXCEPT !.keyState[idx] = [pressed |-> FALSE, notes |-> << >>]],
         sent |-> r.sent \o [i \in 1 .. Len(ns) |-> sendNoteOff(ns[i], 64)]]

\* The key scan of loop() for one key: edges against the previous mask.
ScanKey(r, idx, nowPressed) ==
    LET prevPressed == r.ui.keyPrev[idx]
        t == IF nowPressed /\ ~prevPressed THEN playKey(r, idx, 100)
             ELSE IF ~nowPressed /\ prevPressed THEN releaseKey(r, idx)
             ELSE r
    IN  [ui |-> [t.ui EXCEPT !.keyPrev[idx] = nowPressed], sent |-> t.sent]

\* Button B: the next chord type in chord mode, the next scale in scale mode.
VariationButton(r, nowB) ==
    LET u == r.ui
    IN  IF nowB /\ ~u.btnPrevB
        THEN IF u.g_playMode = MODE_CHORD
             THEN [ui |-> [u EXCEPT !.g_chordType = (u.g_chordType + 1) % NUM_CHORD_TYPES,
                                    !.btnPrevB = nowB],
                   sent |-> r.sent]
             ELSE IF u.g_playMode = MODE_SCALE
                  THEN [ui |-> updateNoteMap(
                                 [u EXCEPT !.g_scaleType = (u.g_scaleType + 1) % NUM_SCALE_TYPES,
                                           !.btnPrevB = nowB]),
                        sent |-> r.sent]
                  ELSE [ui |-> [u EXCEPT !.btnPrevB = nowB], sent |-> r.sent]
        ELSE [ui |-> [u EXCEPT !.btnPrevB = nowB], sent |-> r.sent]

\* The sketch alone: midiq holds the frames the latest pass of loop() wrote
\* to Serial1, those of earlier passes having left the wire.
UiWrites(r) ==
    /\ ui' = r.ui
    /\ midiq' = r.sent
    /\ UNCHANGED << engine, pc, blockPos, irqRan, local >>

\* loop() with one key's switch read.
UiKeyLoop(idx, nowPressed) ==
    /\ nowPressed \in BOOLEAN
    /\ UiWrites(ScanKey([ui |-> ui, sent |-> << >>], idx, nowPressed))

\* loop() with buttons A and B read.
UiButtonLoop(nowA, nowB) ==
    /\ nowA \in BOOLEAN
    /\ UiWrites(VariationButton(PlayModeButton([ui |-> ui, sent |-> << >>], nowA), nowB))

NextKeyboard ==
    \/ \E idx \in KeyIdx, nowPressed \in BOOLEAN : UiKeyLoop(idx, nowPressed)
    \/ \E nowA, nowB \in BOOLEAN : UiButtonLoop(nowA, nowB)

SpecKeyboard == Init /\ [][NextKeyboard]_vars

NoteOnFrames(ns) == [i \in 1 .. Len(ns) |-> sendNoteOn(ns[i], 100)]
NoteOffFrames(ns) == [i \in 1 .. Len(ns) |-> sendNoteOff(ns[i], 64)]

\* C36: the pass of loop() that sees a key go down sends NoteOn for the
\* notes it stores for the key and nothing else; while the key stays down
\* the stored notes do not change, whatever buttons A and B do; the pass
\* that sees the key go up sends NoteOff for exactly the stored notes.
C36_ReleaseMatchesPress ==
    [][\A k \in KeyIdx :
          /\ (~ui.keyState[k].pressed /\ ui'.keyState[k].pressed)
                => /\ midiq' = NoteOnFrames(ui'.keyState[k].notes)
                   /\ ui'.keyState[k].notes # << >>
          /\ (ui.keyState[k].pressed /\ ui'.keyState[k].pressed)
                => ui'.keyState[k].notes = ui.keyState[k].notes
          /\ (ui.keyState[k].pressed /\ ~ui'.keyState[k].pressed)
                => midiq' = NoteOffFrames(ui.keyState[k].notes)
          /\ (ui.keyState[k].pressed = ui'.keyState[k].pressed)
                => \A i \in 1 .. Len(midiq') :
                      midiq'[i][1] \notin {STATUS_NOTE_ON, STATUS_NOTE_OFF}
                      \/ \E j \in KeyIdx \ {k} :
                            ui.keyState[j].pressed # ui'.keyState[j].pressed
      ]_vars

\* A key released after the play mode and the chord type changed under it:
\* the notes the current settings give are not the ones it was pressed with.
C36_Witness ==
    \E k \in KeyIdx :
        /\ ~ui.keyState[k].pressed
        /\ midiq # << >>
        /\ midiq[1][1] = STATUS_NOTE_OFF
        /\ Len(midiq) = 3
        /\ ui.g_playMode = MODE_SCALE
        /\ ui.g_chordType = 1
        /\ ui.g_scaleType = 2

(***************************************************************************)
(* The keys and the engine's voices.  The sketch sends the note frames of  *)
(* its keys and the instrument mode of button A; ProcessMidi applies them  *)
(* in the order sent.                                                      *)
(***************************************************************************)
\* Frames in flight while keys are played: those of one major chord.
WireMax == 3

\* loop() with one key's switch read, the frames reaching the engine's queue.
UiKeySends(idx, nowPressed) ==
    /\ nowPressed \in BOOLEAN
    /\ UiSendsUpTo(ScanKey([ui |-> ui, sent |-> << >>], idx, nowPressed), WireMax)

NextHeld ==
    \/ \E idx \in KeyIdx, nowPressed \in BOOLEAN : UiKeySends(idx, nowPressed)
    \/ \E nowA \in BOOLEAN : UiModeLoop(nowA)
    \/ FrameCommand

SpecHeld == Init /\ [][NextHeld]_vars

\* Some voice holds note n with its key down.
HeldOnEngine(vs, n) == \E i \in VoiceIdx : vs[i].note = n /\ vs[i].keyDown

\* C37: when the NoteOff of a released key is applied as the last frame in
\* flight, and its note is held on the engine and is among the notes of a
\* key still pressed, the note is still held afterwards.
C37_SharedNoteStaysHeld ==
    [][ ( /\ Len(midiq) = 1 /\ midiq' = << >>
          /\ midiq[1][1] = STATUS_NOTE_OFF
          /\ \E k \in KeyIdx :
                /\ ui.keyState[k].pressed
                /\ \E i \in DOMAIN ui.keyState[k].notes :
                      ui.keyState[k].notes[i] = midiq[1][2]
          /\ HeldOnEngine(voices, midiq[1][2]) )
        => HeldOnEngine(voices', midiq[1][2]) ]_vars

(***************************************************************************)
(* The joystick.  Each pass of loop() reads the two axes, turns X into a   *)
(* pitch-bend value and Y into a mod-wheel value, and sends either only    *)
(* when it differs enough from the last one sent.  joyX and joyY keep the  *)
(* readings of the latest pass.                                            *)
(***************************************************************************)
deadX == 40
deadY == 40

Abs(x) == IF x < 0 THEN -x ELSE x

\* C division, which truncates toward zero.
CDiv(a, b) == IF a >= 0 THEN a \div b ELSE -((-a) \div b)

\* Variant: no dead zone around the centre.
pbFromAnalog_NoDead(v, center, dead) ==
    Min(Max(CDiv((v - center) * 8192, 512) + 8192, 0), 16383)

pbFromAnalog(v, center, dead) ==
    LET d == v - center
    IN  IF Abs(d) <= dead THEN 8192
        ELSE Min(Max(CDiv(d * 8192, 512) + 8192, 0), 16383)

sendPitchBend(value14) ==
    LET v == Min(Max(value14, 0), 16383)
    IN  << STATUS_PITCH_BEND, v % 128, (v \div 128) % 128 >>

\* The pitch-bend section of loop().
PitchBendSection(r, joyX) ==
    LET u == r.ui
        pb == IF u.padOK THEN pbFromAnalog(joyX, u.joyCenterX, deadX) ELSE 8192
    IN  IF Abs(pb - u.lastPB) > 32
        THEN [ui |-> [u EXCEPT !.lastPB = pb], sent |-> Append(r.sent, sendPitchBend(pb))]
        ELSE r

\* (uint8_t)(norm * 127.0f + 0.5f) with norm clamped to [0, 1]; the divisor
\* is positive for the centres used here.
ModFromAnalog(joyY, center) ==
    LET dy == joyY - center
        den == 1023 - center - deadY
        num == Min(Max(Abs(dy) - deadY, 0), den)
    IN  IF Abs(dy) <= deadY THEN 0 ELSE (num * 254 + den) \div (2 * den)

\* The mod-wheel section of loop().
ModWheelSection(r, joyY) ==
    LET u == r.ui
        mod == IF u.padOK THEN ModFromAnalog(joyY, u.joyCenterY) ELSE 0
    IN  IF Abs(mod - u.lastMod) > 2
        THEN [ui |-> [u EXCEPT !.lastMod = mod], sent |-> Append(r.sent, sendCC(CC_MODWHEEL, mod))]
        ELSE r

\* The readings of the 10-bit axes used: the ends, the centre, both sides
\* of the dead-zone edge and, for Y, small deflections.
JoyXReadings == {0, 471, 512, 552, 553, 1023}
JoyYReadings == {512, 552, 555, 559, 570, 1023}

\* loop() with the joystick read.
UiJoystickLoop(x, y) ==
    /\ x \in JoyXReadings
    /\ UiSends(ModWheelSection(
                  PitchBendSection([ui |-> [ui EXCEPT !.joyX = IF ui.padOK THEN x ELSE ui.joyCenterX,
                                                      !.joyY = IF ui.padOK THEN y ELSE ui.joyCenterY],
                                    sent |-> << >>], x), y))

NextJoystick ==
    \/ \E x \in JoyXReadings, y \in JoyYReadings : UiJoystickLoop(x, y)
    \/ FrameCommand

SpecJoystick == Init /\ [][NextJoystick]_vars

\* C38: while the X reading of the latest pass is inside the dead zone the
\* last pitch-bend value sent is the centre, 8192, and once no frame is in
\* flight the engine's pitch-bend offset is 0.
C38_CenteredStickNoBend ==
    Abs(ui.joyX - ui.joyCenterX) <= deadX =>
        /\ ui.lastPB = 8192
        /\ midiq = << >> => g_pitchBendSemi = 0

\* The stick back inside the dead zone, off the exact centre, after frames
\* of a deflection were applied.
C38_Witness ==
    /\ ui.joyX = 552
    /\ midiq = << >>
    /\ g_pitchBendSemi = 0
    /\ ui.lastMod = 127
    /\ params[CC_MODWHEEL] # 0

\* C39: while the Y reading of the latest pass is inside the dead zone and
\* no frame is in flight, the engine's mod-wheel value is 0.
C39_CenteredStickNoVibrato ==
    (Abs(ui.joyY - ui.joyCenterY) <= deadY /\ midiq = << >>) => params[CC_MODWHEEL] = 0

(***************************************************************************)
(* The channel of a frame.  Every handler starts with                      *)
(* `if(channel != MidiCh::SYNTH) return;` on the msg.channel ProcessMidi   *)
(* passes it.                                                              *)
(***************************************************************************)
\* The channel field of a status byte: its low four bits.
FrameChannel(status) == status % 16

\* The channel check at the head of HandleNoteOn, HandleNoteOff, HandleCC
\* and HandlePitchBend.
ChannelAccepted(channel) == channel = MidiCh_SYNTH

\* C40: every frame the sketch has put on the wire carries one of the
\* status bytes 0x90, 0x80, 0xB0, 0xE0, and the channel in its low nibble
\* passes the handlers' channel check.
C40_FramesPassChannelCheck ==
    \A i \in DOMAIN midiq :
        /\ midiq[i][1] \in {STATUS_NOTE_ON, STATUS_NOTE_OFF, STATUS_CC, STATUS_PITCH_BEND}
        /\ ChannelAccepted(FrameChannel(midiq[i][1]))

=============================================================================
